---- MODULE Spec2Model ----
(***************************************************************************)
(* A model of lib/libzfs/libzfs_crypto.c: acquisition of key material,     *)
(* derivation of the wrapping key, the create / clone / rewrap policy of   *)
(* encryption roots, and the key load / unload life cycle.                 *)
(*                                                                         *)
(* Five specifications share the variables:                                *)
(*   SpecTerm  one process running get_key_material_raw() on a terminal,   *)
(*             statement by statement, with signals arriving at any time;  *)
(*   SpecLoad  zfs_crypto_load_key() on one dataset, label by label;       *)
(*   Spec      the dataset tree under zfs_crypto_create / _clone / _rewrap;*)
(*   SpecWalk  zfs_crypto_attempt_load_keys() over a dataset tree;         *)
(*   SpecKey   get_key_material() and derive_key() on one input, and the   *)
(*             key of a root made by Create or Rekey loaded again.         *)
(***************************************************************************)
EXTENDS Integers, Sequences, FiniteSets, TLC

(***************************************************************************)
(* Program constants.                                                      *)
(***************************************************************************)
MIN_PASSPHRASE_LEN == 8
MAX_PASSPHRASE_LEN == 64
MAX_KEY_PROMPT_ATTEMPTS == 3
WRAPPING_KEY_LEN == 32
SHA1_DIGEST_LEN == 20

(* errno values, and 0 for success *)
OK == "0"
EINVAL == "EINVAL"
ENOENT == "ENOENT"
EACCES == "EACCES"
EEXIST == "EEXIST"
EBUSY == "EBUSY"
EIO == "EIO"
EINTR == "EINTR"
ENOMEM == "ENOMEM"

(* zfs_keyformat_t *)
ZFS_KEYFORMAT_NONE == "none"
ZFS_KEYFORMAT_RAW == "raw"
ZFS_KEYFORMAT_HEX == "hex"
ZFS_KEYFORMAT_PASSPHRASE == "passphrase"

(* zfs_keylocation_t *)
ZFS_KEYLOCATION_NONE == "KEYLOCATION_NONE"
ZFS_KEYLOCATION_PROMPT == "KEYLOCATION_PROMPT"
ZFS_KEYLOCATION_URI == "KEYLOCATION_URI"

(* zio_encrypt values *)
ZIO_CRYPT_OFF == "off"
ZIO_CRYPT_ON == "on"

(* zfs_keystatus_t *)
ZFS_KEYSTATUS_NONE == "keystatus_none"
ZFS_KEYSTATUS_UNAVAILABLE == "unavailable"
ZFS_KEYSTATUS_AVAILABLE == "available"

(* zprop_source_t, as far as the code tells them apart *)
ZPROP_SRC_LOCAL == "local"
ZPROP_SRC_INHERITED == "inherited"

(***************************************************************************)
(* Bytes and strings.  A C string or buffer is a sequence of byte values.  *)
(***************************************************************************)
NL == 10

Rep(c, n) == [i \in 1..n |-> c]

(* the characters of the keylocation strings the model uses *)
STR_prompt == <<112, 114, 111, 109, 112, 116>>
STR_none == <<110, 111, 110, 101>>
STR_file_prefix == <<102, 105, 108, 101, 58, 47, 47, 47>>
STR_file_k == STR_file_prefix \o <<107>>

Prefix(s, n) == IF Len(s) >= n THEN SubSeq(s, 1, n) ELSE s

(* strlen(): the bytes before the first NUL *)
Strlen(s) ==
    IF \E i \in 1..Len(s) : s[i] = 0
    THEN (CHOOSE i \in 1..Len(s) :
             s[i] = 0 /\ \A j \in 1..(i - 1) : s[j] # 0) - 1
    ELSE Len(s)

isxdigit(c) == \/ (c >= 48 /\ c <= 57)
               \/ (c >= 65 /\ c <= 70)
               \/ (c >= 97 /\ c <= 102)

(* mutant: the letters are taken for lower case *)
HexValLower(c) == IF c >= 48 /\ c <= 57 THEN c - 48 ELSE c - 87

(* sscanf("%02x") of line 88: the value of one digit *)
HexVal(c) == IF c >= 48 /\ c <= 57 THEN c - 48
             ELSE IF c >= 65 /\ c <= 70 THEN c - 55
             ELSE c - 87

zfs_prop_parse_keylocation(str) ==
    IF str = STR_prompt THEN ZFS_KEYLOCATION_PROMPT
    ELSE IF Len(str) > 8 /\ Prefix(str, 8) = STR_file_prefix
         THEN ZFS_KEYLOCATION_URI
    ELSE ZFS_KEYLOCATION_NONE

(* hex_key_to_raw(): [ret, out] *)
hex_key_to_raw(hex, hexlen) ==
    IF \E i \in 1..hexlen : i > Len(hex) \/ ~isxdigit(hex[i])
    THEN [ret |-> EINVAL, out |-> <<>>]
    ELSE [ret |-> OK,
          out |-> [k \in 1..(hexlen \div 2) |->
                      16 * HexVal(hex[2 * k - 1]) + HexVal(hex[2 * k])]]

(***************************************************************************)
(* What one read of the key stream delivers.  A read is a record           *)
(*   [kind, data, errno, before_nl]                                        *)
(* kind "data":   data is what the stream holds (for getline() the line    *)
(*                with its newline if it has one, for fread() the file);   *)
(* kind "eof":    nothing to read; getline() returns -1 and leaves errno   *)
(*                as it was, which is the value of field errno;            *)
(* kind "error":  the read fails with errno (EIO, or EINTR when a signal   *)
(*                interrupts it);                                          *)
(* kind "tcfail": tcsetattr() fails with errno before anything is read     *)
(*                (a terminal only).                                       *)
(* before_nl says whether the byte in front of the malloc()ed raw buffer   *)
(* happens to be a newline: the trim at line 213 reads that byte when      *)
(* fread() returns 0.                                                      *)
(***************************************************************************)
SIZE_MAX == 2147483647   \* stands for (size_t)-1

(* the last byte replaced by NUL *)
TrimLast(b) == [b EXCEPT ![Len(b)] = 0]

(* what lines 213-216 did: inspected, the trim was reached and looked at  *)
(* the byte of index at of the buffer, at being bytes - 1 with bytes the   *)
(* nread bytes read; wrote, it put a NUL there                             *)
TrimOf(nread, inspected, wrote) ==
    [nread |-> nread, inspected |-> inspected,
     at |-> IF inspected THEN nread - 1 ELSE 0, wrote |-> wrote]

(* lines 180-218: [ret, buf, isnull, len, trim] *)
ReadKeyMaterial(rd, keyformat) ==
    IF keyformat # ZFS_KEYFORMAT_RAW
    THEN (* getline() *)
         IF rd.kind \in {"eof", "error"}
         THEN [ret |-> rd.errno, buf |-> <<>>, isnull |-> FALSE, len |-> 0,
               trim |-> TrimOf(0, FALSE, FALSE)]
         ELSE IF rd.data[Len(rd.data)] = NL
              THEN [ret |-> OK, buf |-> TrimLast(rd.data), isnull |-> FALSE,
                    len |-> Len(rd.data) - 1,
                    trim |-> TrimOf(Len(rd.data), TRUE, TRUE)]
              ELSE [ret |-> OK, buf |-> rd.data, isnull |-> FALSE,
                    len |-> Len(rd.data),
                    trim |-> TrimOf(Len(rd.data), TRUE, FALSE)]
    ELSE (* fread() of at most WRAPPING_KEY_LEN + 1 bytes; never negative *)
         LET got == IF rd.kind = "data"
                    THEN Prefix(rd.data, WRAPPING_KEY_LEN + 1) ELSE <<>>
             bytes == Len(got)
         IN  IF bytes = 0
             THEN (* index bytes - 1 is outside the buffer *)
                  IF rd.before_nl
                  THEN [ret |-> OK, buf |-> got, isnull |-> FALSE,
                        len |-> SIZE_MAX, trim |-> TrimOf(0, TRUE, TRUE)]
                  ELSE [ret |-> OK, buf |-> got, isnull |-> FALSE, len |-> 0,
                        trim |-> TrimOf(0, TRUE, FALSE)]
             ELSE IF got[bytes] = NL
                  THEN [ret |-> OK, buf |-> TrimLast(got), isnull |-> FALSE,
                        len |-> bytes - 1, trim |-> TrimOf(bytes, TRUE, TRUE)]
                  ELSE [ret |-> OK, buf |-> got, isnull |-> FALSE,
                        len |-> bytes, trim |-> TrimOf(bytes, TRUE, FALSE)]

(* get_key_material_raw() as one step: the terminal is put back as it was  *)
(* at label out (SpecTerm follows that statement by statement), so only    *)
(* the result is left.  prompted: a prompt was printed.                    *)
get_key_material_raw(tty, rd, keyformat) ==
    IF tty /\ rd.kind = "tcfail"
    THEN [ret |-> rd.errno, buf |-> <<>>, isnull |-> TRUE, len |-> 0,
          prompted |-> TRUE, trim |-> TrimOf(0, FALSE, FALSE)]
    ELSE LET r == ReadKeyMaterial(rd, keyformat)
         IN  [ret |-> r.ret, buf |-> r.buf, isnull |-> r.isnull,
              len |-> IF r.ret = OK THEN r.len ELSE 0, prompted |-> tty,
              trim |-> r.trim]

(* line 350 *)
PassphraseTooLong(kmlen) == kmlen > MAX_PASSPHRASE_LEN

(* mutant: a passphrase of the minimal length is too short *)
PassphraseMinTooShort(kmlen) == kmlen <= MIN_PASSPHRASE_LEN

(* line 357 *)
PassphraseTooShort(kmlen) == kmlen < MIN_PASSPHRASE_LEN

(* lines 300-367: the errno of the basic validation *)
ValidateKeyMaterial(keyformat, km, kmlen) ==
    CASE keyformat = ZFS_KEYFORMAT_RAW ->
            IF kmlen < WRAPPING_KEY_LEN THEN EINVAL
            ELSE IF kmlen > WRAPPING_KEY_LEN THEN EINVAL
            ELSE OK
      [] keyformat = ZFS_KEYFORMAT_HEX ->
            IF kmlen < WRAPPING_KEY_LEN * 2 THEN EINVAL
            ELSE IF kmlen > WRAPPING_KEY_LEN * 2 THEN EINVAL
            ELSE IF \E i \in 1..(WRAPPING_KEY_LEN * 2) : ~isxdigit(km[i])
                 THEN EINVAL
            ELSE OK
      [] keyformat = ZFS_KEYFORMAT_PASSPHRASE ->
            IF PassphraseTooLong(kmlen) THEN EINVAL
            ELSE IF PassphraseTooShort(kmlen) THEN EINVAL
            ELSE OK
      [] OTHER -> OK

(* mutant: only the lengths are compared *)
KeysDifferNever(km, km2, kmlen) == FALSE

(* memcmp(km, km2, kmlen) != 0 *)
KeysDiffer(km, km2, kmlen) ==
    \E i \in 1..kmlen : i > Len(km) \/ i > Len(km2) \/ km[i] # km2[i]

(***************************************************************************)
(* get_key_material(): [ret, km, isnull, kmlen, can_retry, nraw, nprompts, *)
(* opened].  nraw counts the calls of get_key_material_raw, nprompts the   *)
(* prompts printed, opened says that fopen() was called.  tty is           *)
(* isatty(fileno(stdin)); env gives fopen_ok and the reads rd1, rd2.       *)
(***************************************************************************)
GkmFail(ret, why, can_retry, nraw, nprompts, opened) ==
    [ret |-> ret, why |-> why, km |-> <<>>, isnull |-> TRUE, kmlen |-> 0,
     can_retry |-> can_retry, nraw |-> nraw, nprompts |-> nprompts,
     opened |-> opened]

GkmOk(r1, can_retry, nraw, nprompts, opened) ==
    [ret |-> OK, why |-> "none", km |-> r1.buf, isnull |-> r1.isnull,
     kmlen |-> r1.len, can_retry |-> can_retry, nraw |-> nraw,
     nprompts |-> nprompts, opened |-> opened]

(* mutant: every source counts as interactive *)
CanRetryAlways(keyloc, tty) == TRUE

(* lines 264-266: the key is entered interactively *)
CanRetry(keyloc, tty) == keyloc = ZFS_KEYLOCATION_PROMPT /\ tty

(* lines 264-298: after the keylocation is parsed.  r1 and r2 are what the *)
(* first and the second call of get_key_material_raw() return.             *)
GkmEntries(do_verify, keyformat, keyloc, istty, can_retry, fopen_ok, r1, v1, r2) ==
    LET opened == keyloc = ZFS_KEYLOCATION_URI
        p1 == IF r1.prompted THEN 1 ELSE 0
        p2 == IF r2.prompted THEN 1 ELSE 0
    IN  IF keyloc = ZFS_KEYLOCATION_NONE
        THEN GkmFail(EINVAL, "keylocation", FALSE, 0, 0, FALSE)
        ELSE IF istty /\ keyformat = ZFS_KEYFORMAT_RAW
        THEN GkmFail(EINVAL, "rawtty", can_retry, 0, 0, FALSE)
        ELSE IF keyloc = ZFS_KEYLOCATION_URI /\ ~fopen_ok
        THEN GkmFail(ENOENT, "fopen", can_retry, 0, 0, TRUE)
        ELSE IF r1.ret # OK
        THEN GkmFail(r1.ret, "read", can_retry, 1, p1, opened)
        ELSE IF v1 # OK
        THEN GkmFail(v1, "validate", can_retry, 1, p1, opened)
        ELSE IF do_verify /\ istty
        THEN IF r2.ret # OK
             THEN GkmFail(r2.ret, "read", can_retry, 2, p1 + p2, opened)
             ELSE IF r2.len # r1.len \/ KeysDiffer(r1.buf, r2.buf, r1.len)
             THEN GkmFail(EINVAL, "mismatch", can_retry, 2, p1 + p2, opened)
             ELSE GkmOk(r1, can_retry, 2, p1 + p2, opened)
        ELSE GkmOk(r1, can_retry, 1, p1, opened)

GkmValidated(do_verify, keyformat, keyloc, istty, can_retry, fopen_ok, r1, r2) ==
    GkmEntries(do_verify, keyformat, keyloc, istty, can_retry, fopen_ok, r1,
               ValidateKeyMaterial(keyformat, r1.buf, r1.len), r2)

GkmParsed(do_verify, keyformat, keyloc, tty, env) ==
    GkmValidated(do_verify, keyformat, keyloc,
        keyloc = ZFS_KEYLOCATION_PROMPT /\ tty, CanRetry(keyloc, tty),
        env.fopen_ok,
        get_key_material_raw(keyloc = ZFS_KEYLOCATION_PROMPT /\ tty, env.rd1,
                             keyformat),
        get_key_material_raw(keyloc = ZFS_KEYLOCATION_PROMPT /\ tty, env.rd2,
                             keyformat))

get_key_material(do_verify, keyformat, keylocation, tty, env) ==
    GkmParsed(do_verify, keyformat, zfs_prop_parse_keylocation(keylocation),
              tty, env)

(***************************************************************************)
(* Key derivation.                                                         *)
(***************************************************************************)
RECURSIVE BitXorRec(_, _)
BitXorRec(a, b) == IF a = 0 THEN b
                   ELSE IF b = 0 THEN a
                   ELSE ((a + b) % 2) + 2 * BitXorRec(a \div 2, b \div 2)

(* the ^ of two bytes *)
BitXorTable == [a \in 0..255 |-> [b \in 0..255 |-> BitXorRec(a, b)]]
BitXor(a, b) == BitXorTable[a][b]

(* a position-weighted checksum of the first n bytes of s *)
RECURSIVE WeightedSum(_, _)
WeightedSum(s, n) == IF n = 0 THEN 0
                     ELSE (n * s[n] + WeightedSum(s, n - 1)) % 65521

(* crypto_mac() with the SHA1-HMAC mechanism: a keyed function of the data *)
(* with a SHA1_DIGEST_LEN byte result.  The digest itself is the ICP's;    *)
(* here it is a fixed mixing function of key and data.                     *)
crypto_mac(key, data) ==
    LET k == WeightedSum(key, Len(key))
        d == WeightedSum(data, Len(data))
    IN  [i \in 1..SHA1_DIGEST_LEN |->
            (k * (i + 30) + d * (2 * i + 15) + Len(data) + 7 * i) % 256]

XorBlock(a, b) == [i \in 1..SHA1_DIGEST_LEN |-> BitXor(a[i], b[i])]

(* htobe32(n) as the 4 bytes in memory *)
BE32(n) == <<(n \div 16777216) % 256, (n \div 65536) % 256,
             (n \div 256) % 256, n % 256>>

(* LE_64(v) as the 8 bytes in memory; the model's salts are below 2^31 *)
LE64(v) == <<v % 256, (v \div 256) % 256, (v \div 65536) % 256,
             (v \div 16777216) % 256, 0, 0, 0, 0>>

(* the inner loop, lines 498-522: the block after the iterations left,     *)
(* hmac_in being the HMAC input of the next one                            *)
RECURSIVE Pbkdf2Iter(_, _, _, _)
Pbkdf2Iter(key, hmac_in, block, left) ==
    IF left = 0 THEN block
    ELSE CHOOSE r \in
            { Pbkdf2Iter(key, st[1], st[2], left - 1) :
                st \in { <<hmacresult, XorBlock(block, hmacresult)>> :
                            hmacresult \in {crypto_mac(key, hmac_in)} } } :
            TRUE

Pbkdf2Block(key, salt, iterations, blockptr) ==
    Pbkdf2Iter(key, salt \o BE32(1 + (blockptr \div SHA1_DIGEST_LEN)),
               Rep(0, SHA1_DIGEST_LEN), iterations)

(* the main loop, lines 485-533 *)
RECURSIVE Pbkdf2Out(_, _, _, _, _)
Pbkdf2Out(key, salt, iterations, blockptr, outputlen) ==
    IF blockptr >= outputlen THEN <<>>
    ELSE LET block == Pbkdf2Block(key, salt, iterations, blockptr)
         IN  (IF blockptr + SHA1_DIGEST_LEN > outputlen
              THEN SubSeq(block, 1, outputlen - blockptr)
              ELSE block)
             \o Pbkdf2Out(key, salt, iterations, blockptr + SHA1_DIGEST_LEN,
                          outputlen)

(* pbkdf2(): [ret, output]; crypto_ok: the ICP calls succeed *)
pbkdf2(passphrase, passphraselen, salt, iterations, outputlen, crypto_ok) ==
    IF ~crypto_ok THEN [ret |-> EIO, output |-> <<>>]
    ELSE [ret |-> OK,
          output |-> Pbkdf2Out(Prefix(passphrase, passphraselen), salt,
                               iterations, 0, outputlen)]

(* derive_key(): [ret, key, isnull]; env.mem_ok: zfs_alloc() succeeds *)
derive_key(format, iters, key_material, key_material_len, salt, env) ==
    IF ~env.mem_ok THEN [ret |-> ENOMEM, key |-> <<>>, isnull |-> TRUE]
    ELSE CASE format = ZFS_KEYFORMAT_RAW ->
                [ret |-> OK, key |-> Prefix(key_material, WRAPPING_KEY_LEN),
                 isnull |-> FALSE]
           [] format = ZFS_KEYFORMAT_HEX ->
                LET h == hex_key_to_raw(key_material, WRAPPING_KEY_LEN * 2)
                IN  IF h.ret # OK
                    THEN [ret |-> h.ret, key |-> <<>>, isnull |-> TRUE]
                    ELSE [ret |-> OK, key |-> h.out, isnull |-> FALSE]
           [] format = ZFS_KEYFORMAT_PASSPHRASE ->
                LET p == pbkdf2(key_material, Strlen(key_material),
                                LE64(salt), iters, WRAPPING_KEY_LEN,
                                env.crypto_ok)
                IN  IF p.ret # OK
                    THEN [ret |-> p.ret, key |-> <<>>, isnull |-> TRUE]
                    ELSE [ret |-> OK, key |-> p.output, isnull |-> FALSE]
           [] OTHER -> [ret |-> EINVAL, key |-> <<>>, isnull |-> TRUE]

(***************************************************************************)
(* Sample key material.                                                    *)
(***************************************************************************)
Line(x) == x \o <<NL>>

PassA == Rep(97, MIN_PASSPHRASE_LEN)
PassB == Rep(98, MIN_PASSPHRASE_LEN)
PassShort == Rep(97, MIN_PASSPHRASE_LEN - 1)
PassLong == Rep(97, MAX_PASSPHRASE_LEN + 1)
HexA == Rep(48, 2 * WRAPPING_KEY_LEN)
HexB == Rep(49, 2 * WRAPPING_KEY_LEN)
HexBad == Rep(48, 2 * WRAPPING_KEY_LEN - 1) \o <<103>>
RawA == Rep(1, WRAPPING_KEY_LEN)
RawB == Rep(2, WRAPPING_KEY_LEN)
RawLong == Rep(1, WRAPPING_KEY_LEN + 1)

Data(x) == [kind |-> "data", data |-> x, errno |-> OK, before_nl |-> FALSE]
ReadFails(kind, errno) ==
    [kind |-> kind, data |-> <<>>, errno |-> errno, before_nl |-> FALSE]

(* what the user or the key file may deliver for a key of this format: the *)
(* right key, a wrong one, malformed ones, and failing reads               *)
ReadsFor(keyformat) ==
    (CASE keyformat = ZFS_KEYFORMAT_PASSPHRASE ->
            {Data(Line(PassA)), Data(Line(PassB)), Data(Line(PassShort)),
             Data(Line(PassLong))}
       [] keyformat = ZFS_KEYFORMAT_HEX ->
            {Data(Line(HexA)), Data(Line(HexB)), Data(Line(HexBad)),
             Data(Line(PassA))}
       [] keyformat = ZFS_KEYFORMAT_RAW ->
            {Data(RawA), Data(RawB), Data(RawLong), Data(PassA)}
       [] OTHER -> {Data(Line(PassA))})
    \cup {ReadFails("eof", OK), ReadFails("error", EINTR),
          ReadFails("tcfail", EIO)}

(* the key material the dataset's wrapping key was made from *)
RightMaterial(keyformat) ==
    CASE keyformat = ZFS_KEYFORMAT_PASSPHRASE -> PassA
      [] keyformat = ZFS_KEYFORMAT_HEX -> HexA
      [] OTHER -> RawA

EnvOk == [mem_ok |-> TRUE, crypto_ok |-> TRUE]

(***************************************************************************)
(* get_key_material() followed by derive_key() on one input: the          *)
(* acquisition and the derivation as every caller runs them, for key files *)
(* and entries of the lengths around the limits and with the bytes the     *)
(* checks tell apart.                                                      *)
(***************************************************************************)
VARIABLES k_pc,            \* idle, acquired, derived, answered
          k_in,            \* the arguments and the surroundings of the call
          k_gkm,           \* what get_key_material() returned
          k_der,           \* what derive_key() returned
          k_raw,           \* what its first get_key_material_raw() returned
          k_root,          \* the encryption root a Create or Rekey has made
          k_ans            \* what lzc_load_key() answered

keyVars == <<k_pc, k_in, k_gkm, k_der, k_raw, k_root, k_ans>>

MaxExtra == 2              \* an input is at most this much over its limit
MaxKeyIters == 3           \* iteration counts 1..MaxKeyIters

(* raw key files of 31 to 34 bytes: a filling byte and a last byte, each a *)
(* newline or not, and files with a newline right after 32 bytes           *)
RawFiles ==
    { Rep(f, n - 1) \o <<l>> :
        n \in (WRAPPING_KEY_LEN - 1)..(WRAPPING_KEY_LEN + MaxExtra),
        f \in {1, NL}, l \in {1, NL, 255} }
    \cup { Rep(1, WRAPPING_KEY_LEN) \o <<NL, l>> : l \in {1, NL} }

(* 0-9, a-f, A-F *)
HexAlphabet == <<48, 49, 50, 51, 52, 53, 54, 55, 56, 57,
                 97, 98, 99, 100, 101, 102, 65, 66, 67, 68, 69, 70>>

HexMixed ==
    [i \in 1..(2 * WRAPPING_KEY_LEN) |->
        HexAlphabet[((7 * i) % Len(HexAlphabet)) + 1]]

(* the bytes next to the three ranges of hex digits, and NUL, space, x *)
NonHexBytes == {0, 32, 47, 58, 64, 71, 96, 103, 120}

(* hex entries of 63 to 66 characters, and of 64 with one other byte *)
HexEntries ==
    UNION { { base, Prefix(base, 2 * WRAPPING_KEY_LEN - 1), base \o <<48>>,
              base \o <<48, 48>> }
            \cup { [base EXCEPT ![q] = c] :
                     q \in {1, 2, 2 * WRAPPING_KEY_LEN - 1,
                            2 * WRAPPING_KEY_LEN},
                     c \in NonHexBytes } :
            base \in {HexA, HexMixed} }

PassLens ==
    {MIN_PASSPHRASE_LEN - 1, MIN_PASSPHRASE_LEN, MIN_PASSPHRASE_LEN + 1,
     MAX_PASSPHRASE_LEN - 1, MAX_PASSPHRASE_LEN, MAX_PASSPHRASE_LEN + 1}

(* passphrases of the lengths around the limits, also with a NUL inside *)
PassEntries ==
    { Rep(97, n) : n \in PassLens }
    \cup { [Rep(c, n) EXCEPT ![3] = 0] :
             c \in {97, 98}, n \in {MIN_PASSPHRASE_LEN, MAX_PASSPHRASE_LEN} }

(* what getline() delivers for an entry: the line, with its newline or, at *)
(* the end of a file without one, as it is                                 *)
LinesOf(entries) ==
    { Data(Line(e)) : e \in entries } \cup { Data(e) : e \in entries }

(* an empty key file: fread() returns 0, and the byte in front of the      *)
(* buffer is a newline or is not                                           *)
RawEmpty(before_nl) ==
    [kind |-> "data", data |-> <<>>, errno |-> OK, before_nl |-> before_nl]

(* the first read of a key: a file or an entry, or nothing at all (the     *)
(* end of the input, which leaves errno 0)                                 *)
KeyReads(keyformat) ==
    (CASE keyformat = ZFS_KEYFORMAT_RAW ->
            { Data(f) : f \in RawFiles }
            \cup { RawEmpty(b) : b \in BOOLEAN }
       [] keyformat = ZFS_KEYFORMAT_HEX -> LinesOf(HexEntries)
       [] OTHER -> LinesOf(PassEntries))
    \cup { ReadFails("eof", OK) }

(* a second entry for the first entry e: the same with and without the     *)
(* newline, one that differs in its last byte, a shorter and a longer one, *)
(* and a read that fails                                                   *)
SecondReads(e) ==
    { Data(Line(e)), Data(e), Data(Line([e EXCEPT ![Len(e)] = 33])),
      Data(Line(Prefix(e, Len(e) - 1))), Data(Line(e \o <<97>>)),
      ReadFails("eof", OK), ReadFails("error", EIO),
      ReadFails("tcfail", EIO) }

FirstEntries(keyformat) ==
    CASE keyformat = ZFS_KEYFORMAT_HEX -> {HexA, HexMixed, HexBad}
      [] keyformat = ZFS_KEYFORMAT_PASSPHRASE ->
            {PassA, PassShort, Rep(97, MAX_PASSPHRASE_LEN)}
      [] OTHER -> {RawA}

KeySalts == {0, 1, 258, 16909060}

KeyIn(do_verify, keyformat, keylocation, tty_, rd1, rd2, salt, iters) ==
    [do_verify |-> do_verify, keyformat |-> keyformat,
     keylocation |-> keylocation, tty |-> tty_, rd1 |-> rd1, rd2 |-> rd2,
     fopen_ok |-> TRUE, salt |-> salt, iters |-> iters]

(* a key read without a second entry: from a file, or from stdin when it   *)
(* is not a terminal or no verification is asked for                       *)
SingleInputs(keyformat, salts, iters) ==
    { KeyIn(v, keyformat, kl, t, rd, rd, sa, it) :
        v \in BOOLEAN, kl \in {STR_file_k, STR_prompt}, t \in BOOLEAN,
        rd \in KeyReads(keyformat), sa \in salts, it \in iters }

(* a key entered at the terminal, twice when verification is asked for *)
TerminalInputs(keyformat) ==
    UNION { { KeyIn(v, keyformat, STR_prompt, TRUE, Data(Line(e)), rd2, 1, 1) :
                v \in BOOLEAN, rd2 \in SecondReads(e) } :
            e \in FirstEntries(keyformat) }

KeyInputs ==
    SingleInputs(ZFS_KEYFORMAT_RAW, {0}, {0})
    \cup SingleInputs(ZFS_KEYFORMAT_HEX, {0}, {0})
    \cup SingleInputs(ZFS_KEYFORMAT_PASSPHRASE, KeySalts, 1..MaxKeyIters)
    \cup TerminalInputs(ZFS_KEYFORMAT_RAW)
    \cup TerminalInputs(ZFS_KEYFORMAT_HEX)
    \cup TerminalInputs(ZFS_KEYFORMAT_PASSPHRASE)

KeyNoInput == KeyIn(FALSE, ZFS_KEYFORMAT_NONE, <<>>, FALSE, ReadFails("eof", OK), ReadFails("eof", OK), 0, 0)

KeyNoGkm == GkmFail(OK, "none", FALSE, 0, 0, FALSE)

KeyNoDer == [ret |-> OK, key |-> <<>>, isnull |-> TRUE]

(* get_key_material_raw() was not called *)
KeyNoRaw ==
    [ret |-> OK, buf |-> <<>>, isnull |-> TRUE, len |-> 0,
     prompted |-> FALSE, trim |-> TrimOf(0, FALSE, FALSE)]

(* no encryption root has been made *)
KeyNoRoot ==
    [exists |-> FALSE, keyformat |-> ZFS_KEYFORMAT_NONE, keylocation |-> <<>>,
     tty |-> FALSE, salt |-> 0, iters |-> 0, wkey |-> <<>>,
     rd |-> ReadFails("eof", OK)]

KeyIdle ==
    /\ k_pc = "idle"
    /\ k_in = KeyNoInput /\ k_gkm = KeyNoGkm /\ k_der = KeyNoDer
    /\ k_raw = KeyNoRaw
    /\ k_root = KeyNoRoot /\ k_ans = OK

(* lines 292-298: the first get_key_material_raw() of a call that got     *)
(* that far (nraw calls were made)                                        *)
FirstRaw(in, nraw) ==
    IF nraw = 0 THEN KeyNoRaw
    ELSE get_key_material_raw(
             zfs_prop_parse_keylocation(in.keylocation)
                 = ZFS_KEYLOCATION_PROMPT /\ in.tty,
             in.rd1, in.keyformat)

KeyAcquired(in, g) ==
    /\ k_in' = in
    /\ k_gkm' = g
    /\ k_raw' = FirstRaw(in, g.nraw)
    /\ k_pc' = "acquired"
    /\ UNCHANGED <<k_der, k_root, k_ans>>

(* get_key_material(hdl, do_verify, newkey, keyformat, keylocation, ...) *)
KeyAcquire(in) ==
    /\ k_pc = "idle"
    /\ KeyAcquired(in, get_key_material(in.do_verify, in.keyformat,
                                        in.keylocation, in.tty, in))

(* derive_key(hdl, keyformat, iters, key_material, key_material_len, salt, *)
(* &key_data), called when the acquisition succeeded                       *)
KeyDerive(env) ==
    /\ k_pc = "acquired"
    /\ k_gkm.ret = OK
    /\ k_der' = derive_key(k_in.keyformat, k_in.iters, k_gkm.km, k_gkm.kmlen,
                           k_in.salt, env)
    /\ k_pc' = "derived"
    /\ UNCHANGED <<k_in, k_gkm, k_raw, k_root, k_ans>>

(* the caller is done with the key or with the error *)
KeyDone ==
    /\ k_pc \in {"acquired", "derived", "answered"}
    /\ k_pc' = "idle"
    /\ k_in' = KeyNoInput /\ k_gkm' = KeyNoGkm /\ k_der' = KeyNoDer
    /\ k_raw' = KeyNoRaw
    /\ k_ans' = OK
    /\ UNCHANGED k_root

(***************************************************************************)
(* zfs_crypto_load_key() on one dataset, label by label.                   *)
(*                                                                         *)
(* zh is what the handle zhp answers: the pool's encryption feature, the   *)
(* dataset's keyformat, keylocation with the source of that property,      *)
(* keystatus, pbkdf2 salt and iterations; wkey is the wrapping key the     *)
(* storage layer holds for the dataset.  tty is isatty(fileno(stdin)).     *)
(***************************************************************************)
VARIABLES zh, tty,
          l_pc,           \* idle, try_again, derive, ioctl, error, done, crashed
          l_noop, l_keylocation,
          attempts, can_retry, correctible, l_ret,
          key_material,   \* [ptr: null | live | freed, buf, len]
          key_data,       \* [ptr: null | live | freed, key]
          l_cause,        \* why the last attempt failed
          l_seen,         \* the causes of all failed attempts of this call
          n_acq, n_prompts, n_ioctl,  \* calls of get_key_material, prompts
                                      \* printed, calls of lzc_load_key
          double_free,    \* free() was called on a freed buffer
          l_op,           \* the call in progress: none, load, unload
          l_status0,      \* keystatus when the call began
          l_prev,         \* what the call before this one did to the key:
                          \* loaded, unloaded, or none for neither
          n_unload        \* calls of lzc_unload_key

loadVars == <<zh, tty, l_pc, l_noop, l_keylocation, attempts, can_retry,
              correctible, l_ret, key_material, key_data, l_cause, l_seen,
              n_acq, n_prompts, n_ioctl, double_free, l_op, l_status0,
              l_prev, n_unload>>

(* the variables that only a call and its return write *)
callVars == <<l_op, l_status0, l_prev, n_unload>>

DEFAULT_SALT == 5
MODEL_ITERS == 2

NullKm == [ptr |-> "null", buf |-> <<>>, len |-> 0]
NullKd == [ptr |-> "null", key |-> <<>>]

(* mutant: the buffers are not released *)
ReleasedNever(b) == b

(* if (p != NULL) free(p), lines 709-712, 942-943, 1082-1083, 1299-1302,   *)
(* 1607-1608, 1617-1618: the pointer keeps its value                       *)
Released(b) == IF b.ptr = "null" THEN b ELSE [b EXCEPT !.ptr = "freed"]

(* the buffers among bufs that are allocated and not released *)
LiveCount(bufs) == Cardinality({ i \in DOMAIN bufs : bufs[i].ptr = "live" })

WkeyOf(keyformat, salt, iters) ==
    derive_key(keyformat, iters, RightMaterial(keyformat),
               Len(RightMaterial(keyformat)), salt, EnvOk).key

(* the datasets a handle may stand for *)
LoadDatasets ==
    { [feature |-> f, keyformat |-> ZFS_KEYFORMAT_NONE,
       keylocation |-> STR_none, srctype |-> ZPROP_SRC_LOCAL,
       keystatus |-> ZFS_KEYSTATUS_NONE, salt |-> 0, iters |-> 0,
       wkey |-> <<>>] : f \in BOOLEAN }
    \cup
    { [feature |-> TRUE, keyformat |-> kf, keylocation |-> kl,
       srctype |-> st, keystatus |-> ks,
       salt |-> IF kf = ZFS_KEYFORMAT_PASSPHRASE THEN DEFAULT_SALT ELSE 0,
       iters |-> IF kf = ZFS_KEYFORMAT_PASSPHRASE THEN MODEL_ITERS ELSE 0,
       wkey |-> WkeyOf(kf,
                  IF kf = ZFS_KEYFORMAT_PASSPHRASE THEN DEFAULT_SALT ELSE 0,
                  IF kf = ZFS_KEYFORMAT_PASSPHRASE THEN MODEL_ITERS ELSE 0)] :
        kf \in {ZFS_KEYFORMAT_RAW, ZFS_KEYFORMAT_HEX,
                ZFS_KEYFORMAT_PASSPHRASE},
        kl \in {STR_prompt, STR_file_k},
        st \in {ZPROP_SRC_LOCAL, ZPROP_SRC_INHERITED},
        ks \in {ZFS_KEYSTATUS_UNAVAILABLE, ZFS_KEYSTATUS_AVAILABLE} }

LoadIdle ==
    /\ l_pc = "idle"
    /\ l_noop = FALSE /\ l_keylocation = <<>>
    /\ attempts = 0 /\ can_retry = FALSE /\ correctible = FALSE
    /\ l_ret = OK
    /\ key_material = NullKm /\ key_data = NullKd
    /\ l_cause = "none" /\ l_seen = {}
    /\ n_acq = 0 /\ n_prompts = 0 /\ n_ioctl = 0
    /\ double_free = FALSE
    /\ l_op = "none" /\ l_status0 = ZFS_KEYSTATUS_NONE
    /\ l_prev = "none" /\ n_unload = 0

LoadInit ==
    /\ zh \in LoadDatasets
    /\ tty \in BOOLEAN
    /\ LoadIdle

(* mutant: a dataset that inherits its keylocation is taken for a root *)
KeylocationInheritedNever(srctype) == FALSE

(* line 1212 *)
KeylocationInherited(srctype) == srctype = ZPROP_SRC_INHERITED

(* mutant: a key that is loaded is loaded again *)
KeyAlreadyLoadedNever(noop, keystatus) == FALSE

(* lines 1230-1232 *)
KeyAlreadyLoaded(noop, keystatus) ==
    ~noop /\ keystatus = ZFS_KEYSTATUS_AVAILABLE

(* lines 1184-1244: the checks before label try_again; OK to go on *)
LoadPrecheck(h, noop) ==
    IF ~h.feature THEN EINVAL
    ELSE IF h.keyformat = ZFS_KEYFORMAT_NONE THEN EINVAL
    ELSE IF KeylocationInherited(h.srctype) THEN EINVAL
    ELSE IF KeyAlreadyLoaded(noop, h.keystatus) THEN EEXIST
    ELSE OK

(* the call: zfs_crypto_load_key(zhp, noop, alt_keylocation) up to         *)
(* try_again; alt is <<>> for a NULL alt_keylocation                       *)
LoadCall(noop, alt) ==
    /\ l_pc = "idle"
    /\ l_op' = "load" /\ l_status0' = zh.keystatus
    /\ UNCHANGED <<l_prev, n_unload>>
    /\ l_noop' = noop
    /\ l_keylocation' = IF alt # <<>> THEN alt ELSE zh.keylocation
    /\ LET pre == LoadPrecheck(zh, noop)
       IN  /\ l_ret' = pre
           /\ l_pc' = IF pre = OK THEN "try_again" ELSE "done"
           /\ l_cause' = IF pre = OK THEN "none" ELSE "precheck"
    /\ UNCHANGED <<zh, tty, attempts, can_retry, correctible, key_material,
                   key_data, l_seen, n_acq, n_prompts, n_ioctl, double_free>>

(* the key is read from a terminal: lines 263-265 *)
IsTtySource(keylocation, t) ==
    zfs_prop_parse_keylocation(keylocation) = ZFS_KEYLOCATION_PROMPT /\ t

(* lines 1246-1255: correctible = B_TRUE; get_key_material() *)
LoadGetKey(rd, fopen_ok) ==
    /\ l_pc = "try_again"
    /\ rd.kind = "tcfail" => IsTtySource(l_keylocation, tty)
    /\ LET g == get_key_material(FALSE, zh.keyformat, l_keylocation, tty,
                                 [rd1 |-> rd, rd2 |-> rd,
                                  fopen_ok |-> fopen_ok])
       IN  /\ correctible' = TRUE
           /\ can_retry' = g.can_retry
           /\ l_ret' = g.ret
           /\ key_material' =
                 IF g.ret = OK
                 THEN [ptr |-> "live", buf |-> g.km, len |-> g.kmlen]
                 ELSE NullKm
           /\ n_acq' = n_acq + 1
           /\ n_prompts' = n_prompts + g.nprompts
           /\ l_cause' = g.why
           /\ l_seen' = IF g.ret = OK THEN l_seen ELSE l_seen \cup {g.why}
           /\ l_pc' = IF g.ret = OK THEN "derive" ELSE "error"
    /\ UNCHANGED <<zh, tty, l_noop, l_keylocation, attempts, key_data,
                   n_ioctl, double_free, callVars>>

(* lines 1257-1263: derive_key(); correctible = B_FALSE *)
LoadDerive(env) ==
    /\ l_pc = "derive"
    /\ LET d == derive_key(zh.keyformat, zh.iters, key_material.buf,
                           key_material.len, zh.salt, env)
       IN  /\ l_ret' = d.ret
           /\ key_data' = IF d.ret = OK
                          THEN [ptr |-> "live", key |-> d.key]
                          ELSE NullKd
           /\ correctible' = IF d.ret = OK THEN FALSE ELSE correctible
           /\ l_cause' = IF d.ret = OK THEN l_cause ELSE "derive"
           /\ l_seen' = IF d.ret = OK THEN l_seen ELSE l_seen \cup {"derive"}
           /\ l_pc' = IF d.ret = OK THEN "ioctl" ELSE "error"
    /\ UNCHANGED <<zh, tty, l_noop, l_keylocation, attempts, can_retry,
                   key_material, n_acq, n_prompts, n_ioctl, double_free,
                   callVars>>

(* what the storage layer may answer to lzc_load_key(): AccessDenied to a  *)
(* key that is not the dataset's, success to the one that is; invalid      *)
(* argument, already loaded and busy whenever it finds so                  *)
LzcLoadKeyAnswers(h, noop, key) ==
    (IF key = h.wkey THEN {OK} ELSE {EACCES}) \cup {EINVAL, EEXIST, EBUSY}

(* mutant: every answer of the storage layer may be corrected *)
CorrectibleAlways(ret) == TRUE

(* lines 1263-1290: only EACCES is correctible *)
Correctible(ret) == ret = EACCES

(* mutant: the noop flag does not reach the storage layer *)
NoopFlagDropped(noop) == FALSE

(* line 1266: the noop argument of lzc_load_key() *)
NoopFlag(noop) == noop

(* lines 1265-1295: lzc_load_key() and the successful return; with the     *)
(* noop flag the storage layer checks the key and loads nothing            *)
LoadIoctl(ans) ==
    /\ l_pc = "ioctl"
    /\ ans \in LzcLoadKeyAnswers(zh, l_noop, key_data.key)
    /\ l_ret' = ans
    /\ n_ioctl' = n_ioctl + 1
    /\ IF ans = OK
       THEN /\ zh' = IF NoopFlag(l_noop) THEN zh
                     ELSE [zh EXCEPT !.keystatus = ZFS_KEYSTATUS_AVAILABLE]
            /\ key_material' = Released(key_material)
            /\ key_data' = Released(key_data)
            /\ l_pc' = "done"
            /\ UNCHANGED <<correctible, l_cause, l_seen>>
       ELSE /\ correctible' = Correctible(ans)
            /\ l_cause' = ans
            /\ l_seen' = l_seen \cup {ans}
            /\ l_pc' = "error"
            /\ UNCHANGED <<zh, key_material, key_data>>
    /\ UNCHANGED <<tty, l_noop, l_keylocation, attempts, can_retry, n_acq,
                   n_prompts, double_free, callVars>>

(* mutant: the budget is one attempt shorter *)
RetryAllowedShort(cr, co, att) ==
    cr /\ co /\ att < MAX_KEY_PROMPT_ATTEMPTS

(* line 1311 *)
RetryAllowed(cr, co, att) ==
    cr /\ co /\ att <= MAX_KEY_PROMPT_ATTEMPTS

(* lines 1297-1316: label error.  free() of a buffer freed before is       *)
(* undefined: the process may abort there or go on.                        *)
LoadError(aborts) ==
    /\ l_pc = "error"
    /\ LET twice == key_material.ptr = "freed" \/ key_data.ptr = "freed"
       IN  /\ double_free' = (double_free \/ twice)
           /\ key_material' = Released(key_material)
           /\ key_data' = Released(key_data)
           /\ (aborts => twice)
           /\ IF aborts
              THEN l_pc' = "crashed" /\ UNCHANGED attempts
              ELSE IF RetryAllowed(can_retry, correctible, attempts)
              THEN attempts' = attempts + 1 /\ l_pc' = "try_again"
              ELSE l_pc' = "done" /\ UNCHANGED attempts
    /\ UNCHANGED <<zh, tty, l_noop, l_keylocation, can_retry, correctible,
                   l_ret, l_cause, l_seen, n_acq, n_prompts, n_ioctl,
                   callVars>>

(* the call has returned; the next call starts with fresh locals *)
LoadReturn ==
    /\ l_pc = "done"
    /\ l_pc' = "idle"
    /\ l_noop' = FALSE /\ l_keylocation' = <<>>
    /\ attempts' = 0 /\ can_retry' = FALSE /\ correctible' = FALSE
    /\ l_ret' = OK
    /\ key_material' = NullKm /\ key_data' = NullKd
    /\ l_cause' = "none" /\ l_seen' = {}
    /\ n_acq' = 0 /\ n_prompts' = 0 /\ n_ioctl' = 0
    /\ double_free' = FALSE
    /\ l_prev' = IF l_op = "load" /\ ~l_noop /\ l_ret = OK THEN "loaded"
                 ELSE IF l_op = "unload" /\ l_ret = OK THEN "unloaded"
                 ELSE "none"
    /\ l_op' = "none" /\ l_status0' = ZFS_KEYSTATUS_NONE
    /\ n_unload' = 0
    /\ UNCHANGED <<zh, tty>>

(***************************************************************************)
(* get_key_material_raw() statement by statement, in a process whose       *)
(* terminal and signal dispositions are part of the state.  SIGINT and     *)
(* SIGTSTP may arrive between any two statements.                          *)
(*                                                                         *)
(* tcgetattr() follows an isatty() that succeeded on the same descriptor   *)
(* and is taken to succeed; so is the tcsetattr() of label out, whose      *)
(* result the code does not look at.                                       *)
(***************************************************************************)
VARIABLES t_pc,            \* the statement to run next; idle between calls
          t_isatty,        \* isatty(fileno(fd)) of the call
          term_lflag,      \* c_lflag of the terminal: the flags that are set
          sigint_disp,     \* disposition of SIGINT
          sigtstp_disp,    \* disposition of SIGTSTP
          caught_interrupt,\* the static of line 63
          old_term, osigint, osigtstp,   \* locals; "unset" before assigned
          t_ret,
          t_alive,         \* FALSE once SIGINT has terminated the process
          t_pre,           \* terminal and dispositions when the call began,
                           \* and before the first call
          t_how,           \* how the call went: none, read, readerr, tcfail,
                           \* interrupted
          n_caught,        \* SIGINTs taken by catch_signal during the call
          n_rethrown,      \* kill(getpid(), caught_interrupt) calls
          rethrown_at,     \* terminal and dispositions at that kill
          n_signals        \* signals sent so far

termVars == <<t_pc, t_isatty, term_lflag, sigint_disp, sigtstp_disp,
              caught_interrupt, old_term, osigint, osigtstp, t_ret, t_alive,
              t_pre, t_how, n_caught, n_rethrown, rethrown_at, n_signals>>

MaxSignals == 2

SIGINT == "SIGINT"
NOSIG == "0"
EchoFlags == {"ECHO", "ECHOE", "ECHOK", "ECHONL"}
OtherFlags == {"ICANON", "ISIG"}

(* the dispositions the caller may have set before the call *)
CallerDispositions == {"SIG_DFL", "SIG_IGN", "caller_handler"}

TermNow == [lflag |-> term_lflag, sigint |-> sigint_disp,
            sigtstp |-> sigtstp_disp]

(* mutant: the handler forgets the signal *)
catch_signal_lost(sig) == NOSIG

(* line 107 *)
catch_signal(sig) == sig

(* line 170: new_term.c_lflag &= ~(ECHO | ECHOE | ECHOK | ECHONL) *)
ClearEcho(lflag) == lflag \ EchoFlags

(* mutant: the terminal is left as it is *)
TcRestoreSkipped(cur, old) == cur

(* line 223: tcsetattr(fileno(fd), TCSAFLUSH, &old_term) *)
TcRestore(cur, old) == old

TermInit ==
    /\ t_pc = "idle"
    /\ t_isatty = FALSE
    /\ term_lflag \in {EchoFlags \cup OtherFlags, {"ECHO", "ICANON"},
                       OtherFlags}
    /\ sigint_disp \in CallerDispositions
    /\ sigtstp_disp \in CallerDispositions
    /\ caught_interrupt = NOSIG
    /\ old_term = "unset" /\ osigint = "unset" /\ osigtstp = "unset"
    /\ t_ret = OK
    /\ t_alive = TRUE
    /\ t_pre = [first |-> TermNow, call |-> TermNow]
    /\ t_how = "none"
    /\ n_caught = 0 /\ n_rethrown = 0
    /\ rethrown_at = TermNow
    /\ n_signals = 0

TermStep(from, to) == t_alive /\ t_pc = from /\ t_pc' = to

(* the call: line 135, and the isatty() of line 137 *)
TermCall(isatty) ==
    /\ TermStep("idle", IF isatty THEN "reset" ELSE "read")
    /\ t_isatty' = isatty
    /\ t_pre' = [t_pre EXCEPT !.call = TermNow]
    /\ t_ret' = OK /\ t_how' = "none"
    /\ old_term' = "unset" /\ osigint' = "unset" /\ osigtstp' = "unset"
    /\ n_caught' = 0 /\ n_rethrown' = 0
    /\ rethrown_at' = TermNow
    /\ UNCHANGED <<term_lflag, sigint_disp, sigtstp_disp, caught_interrupt,
                   t_alive, n_signals>>

(* line 142 *)
TermReset ==
    /\ TermStep("reset", "sigint")
    /\ caught_interrupt' = NOSIG
    /\ UNCHANGED <<t_isatty, term_lflag, sigint_disp, sigtstp_disp, old_term,
                   osigint, osigtstp, t_ret, t_alive, t_pre, t_how, n_caught,
                   n_rethrown, rethrown_at, n_signals>>

(* lines 143-147 *)
TermInstallSigint ==
    /\ TermStep("sigint", "sigtstp")
    /\ osigint' = sigint_disp
    /\ sigint_disp' = "catch_signal"
    /\ UNCHANGED <<t_isatty, term_lflag, sigtstp_disp, caught_interrupt,
                   old_term, osigtstp, t_ret, t_alive, t_pre, t_how, n_caught,
                   n_rethrown, rethrown_at, n_signals>>

(* lines 148-164: SIGTSTP is ignored, the prompt is printed *)
TermIgnoreSigtstp ==
    /\ TermStep("sigtstp", "tcget")
    /\ osigtstp' = sigtstp_disp
    /\ sigtstp_disp' = "SIG_IGN"
    /\ UNCHANGED <<t_isatty, term_lflag, sigint_disp, caught_interrupt,
                   old_term, osigint, t_ret, t_alive, t_pre, t_how, n_caught,
                   n_rethrown, rethrown_at, n_signals>>

(* line 167 *)
TermTcget ==
    /\ TermStep("tcget", "tcset")
    /\ old_term' = term_lflag
    /\ UNCHANGED <<t_isatty, term_lflag, sigint_disp, sigtstp_disp,
                   caught_interrupt, osigint, osigtstp, t_ret, t_alive, t_pre,
                   t_how, n_caught, n_rethrown, rethrown_at, n_signals>>

(* lines 169-177: the echo is turned off, or tcsetattr() fails *)
TermTcset(ok) ==
    /\ t_alive /\ t_pc = "tcset"
    /\ IF ok
       THEN /\ term_lflag' = ClearEcho(old_term)
            /\ t_pc' = "read"
            /\ UNCHANGED <<t_ret, t_how>>
       ELSE /\ t_ret' = EIO /\ t_how' = "tcfail"
            /\ t_pc' = "out_tc"
            /\ UNCHANGED term_lflag
    /\ UNCHANGED <<t_isatty, sigint_disp, sigtstp_disp, caught_interrupt,
                   old_term, osigint, osigtstp, t_alive, t_pre, n_caught,
                   n_rethrown, rethrown_at, n_signals>>

(* the label that follows the read and the trim: out, whose body runs only *)
(* on a terminal                                                           *)
OutLabel == IF t_isatty THEN "out_tc" ELSE "return"

(* lines 180-218: the key is read (and trimmed), or the read fails *)
TermRead(ok) ==
    /\ t_alive /\ t_pc = "read"
    /\ t_pc' = OutLabel
    /\ t_ret' = IF ok THEN OK ELSE EIO
    /\ t_how' = IF ok THEN "read" ELSE "readerr"
    /\ UNCHANGED <<t_isatty, term_lflag, sigint_disp, sigtstp_disp,
                   caught_interrupt, old_term, osigint, osigtstp, t_alive,
                   t_pre, n_caught, n_rethrown, rethrown_at, n_signals>>

(* line 223 *)
TermOutTc ==
    /\ TermStep("out_tc", "out_sigint")
    /\ term_lflag' = TcRestore(term_lflag, old_term)
    /\ UNCHANGED <<t_isatty, sigint_disp, sigtstp_disp, caught_interrupt,
                   old_term, osigint, osigtstp, t_ret, t_alive, t_pre, t_how,
                   n_caught, n_rethrown, rethrown_at, n_signals>>

(* line 224 *)
TermOutSigint ==
    /\ TermStep("out_sigint", "out_sigtstp")
    /\ sigint_disp' = osigint
    /\ UNCHANGED <<t_isatty, term_lflag, sigtstp_disp, caught_interrupt,
                   old_term, osigint, osigtstp, t_ret, t_alive, t_pre, t_how,
                   n_caught, n_rethrown, rethrown_at, n_signals>>

(* line 225 *)
TermOutSigtstp ==
    /\ TermStep("out_sigtstp", "out_kill")
    /\ sigtstp_disp' = osigtstp
    /\ UNCHANGED <<t_isatty, term_lflag, sigint_disp, caught_interrupt,
                   old_term, osigint, osigtstp, t_ret, t_alive, t_pre, t_how,
                   n_caught, n_rethrown, rethrown_at, n_signals>>

(* what a SIGINT does to the process under disposition d: the process      *)
(* lives on unless the default action terminates it                        *)
SurvivesSigint(d) == d # "SIG_DFL"

(* lines 227-233: the caught signal is sent to the process itself, and is  *)
(* delivered under the disposition then in force                           *)
TermOutKill ==
    /\ TermStep("out_kill", "return")
    /\ IF caught_interrupt # NOSIG
       THEN /\ n_rethrown' = n_rethrown + 1
            /\ rethrown_at' = TermNow
            /\ t_alive' = SurvivesSigint(sigint_disp)
       ELSE UNCHANGED <<n_rethrown, rethrown_at, t_alive>>
    /\ UNCHANGED <<t_isatty, term_lflag, sigint_disp, sigtstp_disp,
                   caught_interrupt, old_term, osigint, osigtstp, t_ret,
                   t_pre, t_how, n_caught, n_signals>>

(* line 236 *)
TermReturn ==
    /\ TermStep("return", "returned")
    /\ UNCHANGED <<t_isatty, term_lflag, sigint_disp, sigtstp_disp,
                   caught_interrupt, old_term, osigint, osigtstp, t_ret,
                   t_alive, t_pre, t_how, n_caught, n_rethrown, rethrown_at,
                   n_signals>>

(* the caller goes on; it may call again (verification, a retry) *)
TermBack ==
    /\ TermStep("returned", "idle")
    /\ UNCHANGED <<t_isatty, term_lflag, sigint_disp, sigtstp_disp,
                   caught_interrupt, old_term, osigint, osigtstp, t_ret,
                   t_alive, t_pre, t_how, n_caught, n_rethrown, rethrown_at,
                   n_signals>>

(* a SIGINT arrives.  Under catch_signal it is recorded, and a getline()   *)
(* blocked in read() fails with EINTR (sa_flags is 0: no restart).         *)
SigintArrives(in_read) ==
    /\ t_alive /\ n_signals < MaxSignals
    /\ n_signals' = n_signals + 1
    /\ in_read => (t_pc = "read" /\ sigint_disp = "catch_signal")
    /\ IF sigint_disp = "catch_signal"
       THEN /\ caught_interrupt' = catch_signal(SIGINT)
            /\ n_caught' = n_caught + 1
            /\ UNCHANGED t_alive
            /\ IF in_read
               THEN /\ t_pc' = OutLabel /\ t_ret' = EINTR
                    /\ t_how' = "interrupted"
               ELSE UNCHANGED <<t_pc, t_ret, t_how>>
       ELSE /\ t_alive' = SurvivesSigint(sigint_disp)
            /\ UNCHANGED <<caught_interrupt, n_caught, t_pc, t_ret, t_how>>
    /\ UNCHANGED <<t_isatty, term_lflag, sigint_disp, sigtstp_disp, old_term,
                   osigint, osigtstp, t_pre, n_rethrown, rethrown_at>>

(* a SIGTSTP arrives: ignored, handled by the caller's handler, or the     *)
(* process is stopped and later continued; nothing of this state changes   *)
SigtstpArrives ==
    /\ t_alive /\ n_signals < MaxSignals
    /\ n_signals' = n_signals + 1
    /\ UNCHANGED <<t_pc, t_isatty, term_lflag, sigint_disp, sigtstp_disp,
                   caught_interrupt, old_term, osigint, osigtstp, t_ret,
                   t_alive, t_pre, t_how, n_caught, n_rethrown, rethrown_at>>

(***************************************************************************)
(* The dataset tree of one pool, and the calls of zfs_crypto_create,       *)
(* zfs_crypto_clone, zfs_crypto_rewrap and zfs_crypto_unload_key on it.    *)
(* A call is one step from idle to done; the return to the caller is the   *)
(* step back to idle.                                                      *)
(***************************************************************************)
VARIABLES feature,   \* the pool has feature@encryption
          ds,        \* the datasets, the pool's root dataset first:
                     \* [parent, crypt, is_local, keyformat, keylocation];
                     \* is_local: keyformat and keylocation are set on the
                     \* dataset itself, their source is not inherited
          loaded,    \* the encryption roots whose wrapping key is loaded
          e_pc,      \* idle | done
          res        \* the call that is done: arguments, results, effects

treeVars == <<feature, ds, loaded, e_pc, res>>

MaxDatasets == 2

ZIO_CRYPT_INHERIT == "inherit"

(* an nvlist is a function from the names it holds; a NULL nvlist_t * is   *)
(* NVL_NULL, on which every lookup and every add fails                     *)
NVL_NULL == [null |-> TRUE]
NVL_EMPTY == [n \in {} |-> 0]
nvlist_exists(nvl, name) == name \in DOMAIN nvl
nvlist_add(nvl, name, val) ==
    [n \in (DOMAIN nvl) \cup {name} |-> IF n = name THEN val ELSE nvl[n]]
nvlist_is_null(nvl) == "null" \in DOMAIN nvl

(* what the handle of dataset d in tree t answers *)
RECURSIVE EncRootIn(_, _)
EncRootIn(t, d) ==
    IF d = 0 THEN 0
    ELSE IF t[d].crypt = ZIO_CRYPT_OFF THEN 0
    ELSE IF t[d].is_local THEN d
    ELSE EncRootIn(t, t[d].parent)

KeyformatIn(t, d) ==
    IF EncRootIn(t, d) = 0 THEN ZFS_KEYFORMAT_NONE
    ELSE t[EncRootIn(t, d)].keyformat

KeylocationIn(t, d) ==
    IF EncRootIn(t, d) = 0 THEN STR_none
    ELSE t[EncRootIn(t, d)].keylocation

KeylocationSrcIn(t, d) ==
    IF t[d].is_local THEN ZPROP_SRC_LOCAL
    ELSE IF EncRootIn(t, d) = 0 THEN "default"
    ELSE ZPROP_SRC_INHERITED

KeystatusIn(t, l, d) ==
    IF EncRootIn(t, d) = 0 THEN ZFS_KEYSTATUS_NONE
    ELSE IF EncRootIn(t, d) \in l THEN ZFS_KEYSTATUS_AVAILABLE
    ELSE ZFS_KEYSTATUS_UNAVAILABLE

(* mutant: no property counts as an encryption property *)
proplist_has_none(props) == FALSE

(* lines 719-747 *)
proplist_has_encryption_props(props) ==
    IF nvlist_exists(props, "encryption") /\ props.encryption # ZIO_CRYPT_OFF
    THEN TRUE
    ELSE IF nvlist_exists(props, "keylocation")
            /\ props.keylocation # STR_none
    THEN TRUE
    ELSE IF nvlist_exists(props, "keyformat") THEN TRUE
    ELSE nvlist_exists(props, "pbkdf2iters")

(* lines 749-780, zfs_prop_get() succeeding *)
zfs_crypto_is_encryption_root(t, d) ==
    IF t[d].crypt = ZIO_CRYPT_OFF THEN FALSE
    ELSE KeylocationSrcIn(t, d) # ZPROP_SRC_INHERITED

(* DEFAULT_PBKDF2_ITERATIONS is defined outside this file *)
DEFAULT_PBKDF2_ITERATIONS == MODEL_ITERS

NoKey == [ptr |-> "null", key |-> <<>>]
NoAcq == [n_acq |-> 0, n_prompts |-> 0, opened |-> FALSE, acquired |-> FALSE,
          n_salt |-> 0, n_derive |-> 0, live |-> 0]

(***************************************************************************)
(* populate_create_encryption_params_nvlists(), lines 626-717:             *)
(* [ret, props, wkeydata, wkeylen, acq].  env: tty, the reads rd1 and rd2, *)
(* fopen_ok, rand_ok and salt of random_get_bytes(), mem_ok, crypto_ok.    *)
(* nvlist_add_*() fails on a NULL list only.                               *)
(***************************************************************************)
PopulateError(ret, props, acq) ==
    [ret |-> ret, props |-> props, wkeydata |-> NoKey, wkeylen |-> 0,
     acq |-> acq]

(* key_material when get_key_material() has returned g: lines 638-642 *)
KmOf(g) == IF g.ret = OK THEN [ptr |-> "live"] ELSE [ptr |-> "null"]

(* what the key collection did: one acquisition (acquired: it returned   *)
(* 0), n_salt salts made, n_derive derivations run, and live of its two  *)
(* buffers left allocated, key_data being kd and key_material released   *)
(* at lines 702 and 709-710                                              *)
AcqOf(g, n_salt, n_derive, kd) ==
    [n_acq |-> 1, n_prompts |-> g.nprompts, opened |-> g.opened,
     acquired |-> g.ret = OK, n_salt |-> n_salt, n_derive |-> n_derive,
     live |-> LiveCount(<<Released(KmOf(g)), kd>>)]

(* mutant: the default number of iterations is not stored *)
WithSaltOnly(props, salt, iters) == nvlist_add(props, "pbkdf2salt", salt)

(* lines 644-694: the properties with salt and iterations added *)
WithSaltAndIters(props, salt, iters) ==
    IF nvlist_exists(props, "pbkdf2iters")
    THEN nvlist_add(props, "pbkdf2salt", salt)
    ELSE nvlist_add(nvlist_add(props, "pbkdf2salt", salt), "pbkdf2iters",
                    iters)

(* lines 641-716, g being what get_key_material() returned and d what     *)
(* derive_key() returns                                                   *)
PopulateDerived(pass, has_iters, props, propsd, rand_ok, g, d) ==
    IF g.ret # OK
    THEN PopulateError(g.ret, props, AcqOf(g, 0, 0, Released(NullKd)))
    ELSE IF pass /\ ~rand_ok
    THEN PopulateError(EIO, props, AcqOf(g, 0, 0, Released(NullKd)))
    ELSE IF pass /\ nvlist_is_null(props)
    THEN PopulateError(EINVAL, props, AcqOf(g, 1, 0, Released(NullKd)))
    ELSE IF ~pass /\ has_iters
    THEN PopulateError(EINVAL, props, AcqOf(g, 0, 0, Released(NullKd)))
    ELSE IF d.ret # OK
    THEN PopulateError(d.ret, propsd,
             AcqOf(g, IF pass THEN 1 ELSE 0, 1, Released(NullKd)))
    ELSE [ret |-> OK, props |-> propsd,
          wkeydata |-> [ptr |-> "live", key |-> d.key],
          wkeylen |-> WRAPPING_KEY_LEN,
          acq |-> AcqOf(g, IF pass THEN 1 ELSE 0, 1,
                        [ptr |-> "live", key |-> d.key])]

PopulateWith(keyformat, props, env, salt, iters, g) ==
    PopulateDerived(keyformat = ZFS_KEYFORMAT_PASSPHRASE,
        nvlist_exists(props, "pbkdf2iters"), props,
        IF keyformat = ZFS_KEYFORMAT_PASSPHRASE
        THEN WithSaltAndIters(props, salt, iters) ELSE props,
        env.rand_ok, g,
        derive_key(keyformat, iters, g.km, g.kmlen, salt, env))

populate_create_encryption_params_nvlists(keyformat, keylocation, props, env) ==
    PopulateWith(keyformat, props, env,
        IF keyformat = ZFS_KEYFORMAT_PASSPHRASE THEN env.salt ELSE 0,
        IF nvlist_exists(props, "pbkdf2iters") THEN props.pbkdf2iters
        ELSE IF keyformat = ZFS_KEYFORMAT_PASSPHRASE
        THEN DEFAULT_PBKDF2_ITERATIONS ELSE 0,
        get_key_material(TRUE, keyformat, keylocation, env.tty, env))

(***************************************************************************)
(* zfs_crypto_create(), lines 782-948: [ret, stage, props, wkeydata_out,   *)
(* wkeylen_out, acq].  parent_name is 0 for NULL, else the index the name  *)
(* stands for; a name that make_dataset_handle() cannot resolve is an      *)
(* index outside the tree.  stage tells where the call ended: lookup,      *)
(* policy (a check of the properties), keys (the key collection) or        *)
(* accepted.                                                               *)
(***************************************************************************)
CryptoOut(ret, stage, props, acq) ==
    [ret |-> ret, stage |-> stage, props |-> props, wkeydata_out |-> NoKey,
     wkeylen_out |-> 0, acq |-> acq]

CryptoDone(stage, props, wkeydata, wkeylen, acq) ==
    [ret |-> OK, stage |-> stage, props |-> props, wkeydata_out |-> wkeydata,
     wkeylen_out |-> wkeylen, acq |-> acq]

(* the account acq with the wrapping key wkeydata released if it is set *)
AfterRelease(acq, wkeydata) ==
    [acq EXCEPT !.live = LiveCount(<<Released(wkeydata)>>)]

(* lines 925-947, 1066-1087: p is what the key collection returned; label *)
(* out releases wkeydata if it is set                                     *)
CryptoKeys(p) ==
    IF p.ret # OK
    THEN CryptoOut(p.ret, "keys", p.props, AfterRelease(p.acq, p.wkeydata))
    ELSE CryptoDone("accepted", p.props, p.wkeydata, p.wkeylen, p.acq)

(* mutant: the feature is never found missing *)
FeatureMissingNever(enabled) == FALSE

(* lines 825, 840 *)
FeatureMissing(enabled) == ~enabled

(* mutant: encryption may be switched off under an encrypted parent *)
OptOutAllowed(crypt, pcrypt) == FALSE

(* line 857 *)
OptOutRefused(crypt, pcrypt) ==
    crypt = ZIO_CRYPT_OFF /\ pcrypt # ZIO_CRYPT_OFF

(* mutant: a dataset under an unencrypted parent may go without keyformat *)
RootNeedsKeyformatNever(pcrypt, keylocation_null, keyformat) == FALSE

(* line 892 *)
RootNeedsKeyformat(pcrypt, keylocation_null, keyformat) ==
    pcrypt = ZIO_CRYPT_OFF /\ keylocation_null
        /\ keyformat = ZFS_KEYFORMAT_NONE

(* mutant: no default for the keylocation *)
DefaultKeylocationNone(keyformat, keylocation_null) == FALSE

(* lines 912, 1033 *)
DefaultKeylocation(keyformat, keylocation_null) ==
    keyformat # ZFS_KEYFORMAT_NONE /\ keylocation_null

zfs_crypto_create(t, feat, parent_name, props, pool_feature, env) ==
    LET local_crypt == nvlist_exists(props, "encryption")
        crypt0 == IF local_crypt THEN props.encryption ELSE ZIO_CRYPT_INHERIT
        keyformat == IF nvlist_exists(props, "keyformat")
                     THEN props.keyformat ELSE ZFS_KEYFORMAT_NONE
        given == nvlist_exists(props, "keylocation")
        found == parent_name \in 1..Len(t)
        pcrypt == IF parent_name = 0 THEN ZIO_CRYPT_OFF
                  ELSE t[parent_name].crypt
        enabled == IF parent_name = 0 THEN pool_feature ELSE feat
        crypt == IF local_crypt THEN crypt0 ELSE pcrypt
        defaulted == DefaultKeylocation(keyformat, ~given)
        props1 == IF defaulted
                  THEN nvlist_add(props, "keylocation", STR_prompt)
                  ELSE props
    IN  IF parent_name # 0 /\ ~found
        THEN CryptoOut(ENOENT, "lookup", props, NoAcq)
        ELSE IF FeatureMissing(enabled)
        THEN IF proplist_has_encryption_props(props)
             THEN CryptoOut(EINVAL, "policy", props, NoAcq)
             ELSE CryptoOut(OK, "accepted", props, NoAcq)
        ELSE IF OptOutRefused(crypt0, pcrypt)
        THEN CryptoOut(EINVAL, "policy", props, NoAcq)
        ELSE IF crypt = ZIO_CRYPT_OFF
        THEN IF proplist_has_encryption_props(props)
             THEN CryptoOut(EINVAL, "policy", props, NoAcq)
             ELSE CryptoOut(OK, "accepted", props, NoAcq)
        ELSE IF RootNeedsKeyformat(pcrypt, ~given, keyformat)
        THEN CryptoOut(EINVAL, "policy", props, NoAcq)
        ELSE IF given /\ keyformat = ZFS_KEYFORMAT_NONE
        THEN CryptoOut(EINVAL, "policy", props, NoAcq)
        ELSE IF given \/ defaulted
        THEN CryptoKeys(populate_create_encryption_params_nvlists(keyformat,
                            props1.keylocation, props1, env))
        ELSE CryptoDone("accepted", props1, NoKey, 0, NoAcq)

(***************************************************************************)
(* zfs_crypto_clone(), lines 950-1088.  out0 is what the caller's          *)
(* wkeydata_out and wkeylen_out variables hold when the call is made.      *)
(***************************************************************************)
(* mutant: the origin's key status is not looked at *)
OriginKeyMissingNever(okey_status) == FALSE

(* line 1046 *)
OriginKeyMissing(okey_status) == okey_status # ZFS_KEYSTATUS_AVAILABLE

zfs_crypto_clone(t, l, origin, parent_name, props, env, out0) ==
    LET keyformat == IF nvlist_exists(props, "keyformat")
                     THEN props.keyformat ELSE ZFS_KEYFORMAT_NONE
        given == nvlist_exists(props, "keylocation")
        found == parent_name \in 1..Len(t)
        pcrypt == t[parent_name].crypt
        ocrypt == t[origin].crypt
        defaulted == DefaultKeylocation(keyformat, ~given)
        props1 == IF defaulted
                  THEN nvlist_add(props, "keylocation", STR_prompt)
                  ELSE props
        okey_status == KeystatusIn(t, l, origin)
    IN  IF ~found
        THEN [ret |-> ENOENT, stage |-> "lookup", props |-> props,
              wkeydata_out |-> out0.wkeydata, wkeylen_out |-> out0.wkeylen,
              acq |-> NoAcq]
        ELSE IF nvlist_exists(props, "encryption")
        THEN CryptoOut(EINVAL, "policy", props, NoAcq)
        ELSE IF pcrypt # ZIO_CRYPT_OFF /\ ocrypt = ZIO_CRYPT_OFF
        THEN CryptoOut(EINVAL, "policy", props, NoAcq)
        ELSE IF ocrypt = ZIO_CRYPT_OFF
        THEN IF proplist_has_encryption_props(props)
             THEN CryptoOut(EINVAL, "policy", props, NoAcq)
             ELSE CryptoOut(OK, "accepted", props, NoAcq)
        ELSE IF given /\ keyformat = ZFS_KEYFORMAT_NONE
        THEN CryptoOut(EINVAL, "policy", props, NoAcq)
        ELSE IF OriginKeyMissing(okey_status)
        THEN CryptoOut(EACCES, "policy", props1, NoAcq)
        ELSE IF pcrypt = ZIO_CRYPT_OFF /\ keyformat = ZFS_KEYFORMAT_NONE
        THEN CryptoOut(EINVAL, "policy", props1, NoAcq)
        ELSE IF given \/ defaulted
        THEN CryptoKeys(populate_create_encryption_params_nvlists(keyformat,
                            props1.keylocation, props1, env))
        ELSE CryptoDone("accepted", props1, NoKey, 0, NoAcq)

(***************************************************************************)
(* zfs_crypto_verify_rewrap_nvlist(), lines 1402-1449: [ret, props].       *)
(* valid_ok: zfs_valid_proplist() accepts the values.  When it does not,   *)
(* ret is returned without ever having been assigned: junk is the value    *)
(* the caller then sees.                                                   *)
(***************************************************************************)
RewrapNames == {"pbkdf2iters", "keyformat", "keylocation"}

zfs_crypto_verify_rewrap_nvlist(props, valid_ok, junk) ==
    IF \E n \in DOMAIN props : n \notin RewrapNames
    THEN [ret |-> EINVAL, props |-> NVL_NULL]
    ELSE IF ~valid_ok THEN [ret |-> junk, props |-> NVL_NULL]
    ELSE [ret |-> OK, props |-> props]

(***************************************************************************)
(* zfs_crypto_rewrap(), lines 1451-1622, up to the ioctl: [ret, stage,     *)
(* props, wkeydata, wkeylen, acq]; stage ioctl: lzc_change_key() is the    *)
(* next statement.  zfs_prop_get() and make_dataset_handle() succeed on a  *)
(* dataset that exists.                                                    *)
(***************************************************************************)
RewrapOut(ret, stage, props, acq) ==
    [ret |-> ret, stage |-> stage, props |-> props, wkeydata |-> NoKey,
     wkeylen |-> 0, acq |-> acq]

(* lines 1524-1585 of the rekey variant: p is what the key collection     *)
(* returned; wkeydata is released after the ioctl (line 1608) and at      *)
(* label error (line 1618)                                                *)
RewrapKeys(keystatus, p) ==
    IF p.ret # OK
    THEN RewrapOut(p.ret, "keys", p.props, AfterRelease(p.acq, p.wkeydata))
    ELSE IF keystatus = ZFS_KEYSTATUS_UNAVAILABLE
    THEN RewrapOut(EACCES, "keystatus", p.props,
                   AfterRelease(p.acq, p.wkeydata))
    ELSE [ret |-> OK, stage |-> "ioctl", props |-> p.props,
          wkeydata |-> p.wkeydata, wkeylen |-> p.wkeylen,
          acq |-> AfterRelease(p.acq, p.wkeydata)]

(* lines 1493-1529: v is what zfs_crypto_verify_rewrap_nvlist() returned *)
RewrapVerified(t, l, d, env, v) ==
    IF v.ret # OK THEN RewrapOut(v.ret, "policy", NVL_NULL, NoAcq)
    ELSE RewrapKeys(KeystatusIn(t, l, d),
            populate_create_encryption_params_nvlists(
                IF nvlist_exists(v.props, "keyformat")
                   /\ v.props.keyformat # ZFS_KEYFORMAT_NONE
                THEN v.props.keyformat ELSE KeyformatIn(t, d),
                IF nvlist_exists(v.props, "keylocation")
                THEN v.props.keylocation ELSE KeylocationIn(t, d),
                v.props, env))

(* mutant: the parent's key status is not looked at *)
ParentKeyMissingNever(pkeystatus) == FALSE

(* line 1570 *)
ParentKeyMissing(pkeystatus) == pkeystatus = ZFS_KEYSTATUS_UNAVAILABLE

zfs_crypto_rewrap(t, l, feat, d, raw_props, inheritkey, env) ==
    LET crypt == t[d].crypt
        parent == t[d].parent
        keystatus == KeystatusIn(t, l, d)
    IN  IF ~feat THEN RewrapOut(EINVAL, "policy", NVL_NULL, NoAcq)
        ELSE IF crypt = ZIO_CRYPT_OFF
        THEN RewrapOut(EINVAL, "policy", NVL_NULL, NoAcq)
        ELSE IF ~inheritkey
        THEN RewrapVerified(t, l, d, env,
                 zfs_crypto_verify_rewrap_nvlist(raw_props, env.valid_ok,
                                                 env.junk))
        ELSE IF ~zfs_crypto_is_encryption_root(t, d)
        THEN RewrapOut(EINVAL, "policy", NVL_NULL, NoAcq)
        ELSE IF parent = 0 THEN RewrapOut(EINVAL, "policy", NVL_NULL, NoAcq)
        ELSE IF t[parent].crypt = ZIO_CRYPT_OFF
        THEN RewrapOut(EINVAL, "policy", NVL_NULL, NoAcq)
        ELSE IF ParentKeyMissing(KeystatusIn(t, l, parent))
        THEN RewrapOut(EACCES, "policy", NVL_NULL, NoAcq)
        ELSE IF keystatus = ZFS_KEYSTATUS_UNAVAILABLE
        THEN RewrapOut(EACCES, "keystatus", NVL_NULL, NoAcq)
        ELSE RewrapOut(OK, "ioctl", NVL_NULL, NoAcq)

(***************************************************************************)
(* zfs_crypto_unload_key(), lines 1319-1400, up to the ioctl.              *)
(***************************************************************************)
(* mutant: a key that is not loaded is unloaded again *)
KeyAlreadyUnloadedNever(keystatus) == FALSE

(* line 1370 *)
KeyAlreadyUnloaded(keystatus) == keystatus = ZFS_KEYSTATUS_UNAVAILABLE

zfs_crypto_unload_key(t, l, feat, d) ==
    IF ~feat THEN [ret |-> EINVAL, stage |-> "policy"]
    ELSE IF KeyformatIn(t, d) = ZFS_KEYFORMAT_NONE
    THEN [ret |-> EINVAL, stage |-> "policy"]
    ELSE IF KeylocationSrcIn(t, d) = ZPROP_SRC_INHERITED
    THEN [ret |-> EINVAL, stage |-> "policy"]
    ELSE IF KeyAlreadyUnloaded(KeystatusIn(t, l, d))
    THEN [ret |-> ENOENT, stage |-> "policy"]
    ELSE [ret |-> OK, stage |-> "ioctl"]

(***************************************************************************)
(* The storage layer.  Its code is not part of this file; what it does     *)
(* with an accepted request is taken from the design document: a new       *)
(* dataset takes the encryption it is given or else its parent's (a clone: *)
(* its origin's), it is an encryption root iff it is encrypted and carries *)
(* a keylocation, and a new root's key is loaded.                          *)
(***************************************************************************)
NewDataset(parent, crypt, props) ==
    LET is_local == crypt # ZIO_CRYPT_OFF /\ nvlist_exists(props, "keylocation")
    IN  [parent |-> parent, crypt |-> crypt, is_local |-> is_local,
         keyformat |-> IF is_local THEN props.keyformat
                       ELSE ZFS_KEYFORMAT_NONE,
         keylocation |-> IF is_local THEN props.keylocation ELSE <<>>]

CreatedCrypt(t, parent, props) ==
    IF nvlist_exists(props, "encryption") THEN props.encryption
    ELSE IF parent = 0 THEN ZIO_CRYPT_OFF
    ELSE t[parent].crypt

(* change_key: Ok, InvalidArgument or AccessDenied *)
LzcChangeKeyAnswers == {OK, EINVAL, EACCES}

(* the dataset after a key change: with a new wrapping key it is an        *)
(* encryption root, its format the one the key was made for (line 1507: a  *)
(* keyformat of none stands for the format the dataset has) and its        *)
(* location as given or else as before; without one it inherits its        *)
(* parent's key                                                            *)
Rewrapped(t, d, props, inheritkey) ==
    IF inheritkey
    THEN [t[d] EXCEPT !.is_local = FALSE,
                      !.keyformat = ZFS_KEYFORMAT_NONE,
                      !.keylocation = <<>>]
    ELSE [t[d] EXCEPT !.is_local = TRUE,
                      !.keyformat = IF nvlist_exists(props, "keyformat")
                                       /\ props.keyformat
                                              # ZFS_KEYFORMAT_NONE
                                    THEN props.keyformat
                                    ELSE KeyformatIn(t, d),
                      !.keylocation = IF nvlist_exists(props, "keylocation")
                                      THEN props.keylocation
                                      ELSE KeylocationIn(t, d)]

(***************************************************************************)
(* The arguments the calls are made with.                                  *)
(***************************************************************************)
ABSENT == "absent"

PropNames(e, kf, kl, it, other) ==
    (IF e = ABSENT THEN {} ELSE {"encryption"})
    \cup (IF kf = ABSENT THEN {} ELSE {"keyformat"})
    \cup (IF kl = <<>> THEN {} ELSE {"keylocation"})
    \cup (IF it = 0 THEN {} ELSE {"pbkdf2iters"})
    \cup (IF other THEN {"compression"} ELSE {})

(* the property list with these values; ABSENT, <<>> and 0: not in it *)
PropsOf(e, kf, kl, it, other) ==
    [n \in PropNames(e, kf, kl, it, other) |->
        CASE n = "encryption" -> e
          [] n = "keyformat" -> kf
          [] n = "keylocation" -> kl
          [] n = "pbkdf2iters" -> it
          [] OTHER -> "on"]

KeyformatArgs == {ABSENT, ZFS_KEYFORMAT_NONE, ZFS_KEYFORMAT_RAW,
                  ZFS_KEYFORMAT_HEX, ZFS_KEYFORMAT_PASSPHRASE}
KeylocationArgs == {<<>>, STR_none, STR_prompt, STR_file_k}
ItersArgs == {0, MODEL_ITERS + 1}

CreateProps ==
    { PropsOf(e, kf, kl, it, FALSE) :
        e \in {ABSENT, ZIO_CRYPT_OFF, ZIO_CRYPT_ON}, kf \in KeyformatArgs,
        kl \in KeylocationArgs, it \in ItersArgs }

RewrapProps ==
    { PropsOf(ABSENT, kf, kl, it, FALSE) :
        kf \in KeyformatArgs, kl \in KeylocationArgs, it \in ItersArgs }
    \cup { PropsOf(ABSENT, kf, <<>>, 0, TRUE) :
              kf \in {ABSENT, ZFS_KEYFORMAT_HEX} }

Env(tty_, rd1, rd2, fopen_ok, mem_ok, crypto_ok, rand_ok) ==
    [tty |-> tty_, rd1 |-> rd1, rd2 |-> rd2, fopen_ok |-> fopen_ok,
     mem_ok |-> mem_ok, crypto_ok |-> crypto_ok, rand_ok |-> rand_ok,
     salt |-> DEFAULT_SALT + 1, valid_ok |-> TRUE, junk |-> OK]

GoodRead(kf) == IF kf = ZFS_KEYFORMAT_RAW THEN Data(RawA)
                ELSE Data(Line(RightMaterial(kf)))
OtherRead(kf) == CASE kf = ZFS_KEYFORMAT_RAW -> Data(RawB)
                   [] kf = ZFS_KEYFORMAT_HEX -> Data(Line(HexB))
                   [] OTHER -> Data(Line(PassB))
BadRead(kf) == CASE kf = ZFS_KEYFORMAT_RAW -> Data(RawLong)
                 [] kf = ZFS_KEYFORMAT_HEX -> Data(Line(HexBad))
                 [] OTHER -> Data(Line(PassShort))

(* the surroundings of a key collection for a key of format kf: the key    *)
(* entered twice at the terminal, a second entry that differs, a malformed *)
(* entry; the key piped in or in the key file, a failing read, a key file  *)
(* that cannot be opened, and an allocation, the HMAC or the random source *)
(* failing                                                                 *)
KeyEnvs(kf) ==
    { Env(TRUE, GoodRead(kf), GoodRead(kf), TRUE, TRUE, TRUE, TRUE),
      Env(TRUE, GoodRead(kf), OtherRead(kf), TRUE, TRUE, TRUE, TRUE),
      Env(TRUE, BadRead(kf), GoodRead(kf), TRUE, TRUE, TRUE, TRUE),
      Env(FALSE, GoodRead(kf), GoodRead(kf), TRUE, TRUE, TRUE, TRUE),
      Env(FALSE, ReadFails("error", EIO), GoodRead(kf), TRUE, TRUE, TRUE,
          TRUE),
      Env(FALSE, GoodRead(kf), GoodRead(kf), FALSE, TRUE, TRUE, TRUE),
      Env(FALSE, GoodRead(kf), GoodRead(kf), TRUE, FALSE, TRUE, TRUE) }
    \cup (IF kf = ZFS_KEYFORMAT_PASSPHRASE
          THEN { Env(FALSE, GoodRead(kf), GoodRead(kf), TRUE, TRUE, FALSE,
                     TRUE),
                 Env(FALSE, GoodRead(kf), GoodRead(kf), TRUE, TRUE, TRUE,
                     FALSE) }
          ELSE {})

Env0(kf) == Env(TRUE, GoodRead(kf), GoodRead(kf), TRUE, TRUE, TRUE, TRUE)

(* the surroundings matter only to a call that collects a key *)
EnvsFor(collects, kf) == IF collects THEN KeyEnvs(kf) ELSE {Env0(kf)}

ArgKeyformat(props) ==
    IF nvlist_exists(props, "keyformat") THEN props.keyformat
    ELSE ZFS_KEYFORMAT_NONE

(* the caller's out variables before a call: initialised, or not *)
OutBefore == { [wkeydata |-> NoKey, wkeylen |-> 0],
               [wkeydata |-> [ptr |-> "stale", key |-> <<>>],
                wkeylen |-> WRAPPING_KEY_LEN] }

NoRes == [op |-> "none"]

TreeInit ==
    /\ feature = FALSE
    /\ ds = <<>>
    /\ loaded = {}
    /\ e_pc = "idle"
    /\ res = NoRes

(* the names a caller may pass for the parent: NULL for the pool's root    *)
(* dataset, a dataset, or a name that no dataset has                       *)
ParentNames == IF ds = <<>> THEN {0, 1} ELSE 1..(Len(ds) + 1)

(* what a failed call leaves in the place of the new dataset *)
NoChild == NewDataset(0, ZIO_CRYPT_OFF, NVL_EMPTY)

(* the creation that follows a zfs_crypto_create() or zfs_crypto_clone()  *)
(* that returned r: the dataset child is made when r.ret is 0 and there   *)
(* is room for it                                                         *)
Created(op, origin, parent_name, props, enabled, okey_status, r, child) ==
    /\ ds' = IF r.ret = OK /\ Len(ds) < MaxDatasets THEN Append(ds, child)
             ELSE ds
    /\ loaded' = IF r.ret = OK /\ Len(ds) < MaxDatasets /\ child.is_local
                 THEN loaded \cup {Len(ds) + 1} ELSE loaded
    /\ res' = [op |-> op, parent |-> parent_name, origin |-> origin,
               props_in |-> props, enabled |-> enabled,
               okey_status |-> okey_status, r |-> r,
               child |-> IF r.ret = OK THEN child ELSE NoChild,
               created |-> IF r.ret = OK /\ Len(ds) < MaxDatasets
                           THEN Len(ds) + 1 ELSE 0]
    /\ e_pc' = "done"

CreateReturned(parent_name, props, pool_feature, r) ==
    /\ Created("create", 0, parent_name, props,
               IF parent_name = 0 THEN pool_feature ELSE feature,
               ZFS_KEYSTATUS_NONE, r,
               NewDataset(parent_name, CreatedCrypt(ds, parent_name, r.props),
                          r.props))
    /\ feature' = IF r.ret = OK /\ Len(ds) < MaxDatasets /\ parent_name = 0
                  THEN pool_feature ELSE feature

(* zfs_crypto_create() and, when it returns 0, the creation *)
Create(parent_name, props, pool_feature, env) ==
    /\ e_pc = "idle"
    /\ CreateReturned(parent_name, props, pool_feature,
           zfs_crypto_create(ds, feature, parent_name, props, pool_feature,
                             env))

CloneReturned(origin, parent_name, props, r) ==
    /\ Created("clone", origin, parent_name, props, feature,
               KeystatusIn(ds, loaded, origin), r,
               NewDataset(parent_name, ds[origin].crypt, r.props))
    /\ UNCHANGED feature

(* zfs_crypto_clone() and, when it returns 0, the creation of the clone *)
Clone(origin, parent_name, props, env, out0) ==
    /\ e_pc = "idle"
    /\ CloneReturned(origin, parent_name, props,
           zfs_crypto_clone(ds, loaded, origin, parent_name, props, env,
                            out0))

RewrapReturned(d, raw_props, inheritkey, valid_ok, ans, r) ==
    /\ ds' = IF r.stage = "ioctl" /\ ans = OK
             THEN [ds EXCEPT ![d] = Rewrapped(ds, d, r.props, inheritkey)]
             ELSE ds
    /\ loaded' = IF ~(r.stage = "ioctl" /\ ans = OK) THEN loaded
                 ELSE IF inheritkey THEN loaded \ {d}
                 ELSE loaded \cup {d}
    /\ res' = [op |-> "rewrap", d |-> d, props_in |-> raw_props,
               inheritkey |-> inheritkey,
               enabled |-> feature, valid_ok |-> valid_ok,
               keystatus |-> KeystatusIn(ds, loaded, d),
               keyformat0 |-> KeyformatIn(ds, d),
               is_encroot |-> zfs_crypto_is_encryption_root(ds, d),
               parent |-> ds[d].parent,
               pcrypt |-> IF ds[d].parent = 0 THEN ZIO_CRYPT_OFF
                          ELSE ds[ds[d].parent].crypt,
               pkeystatus |-> IF ds[d].parent = 0 THEN ZFS_KEYSTATUS_NONE
                              ELSE KeystatusIn(ds, loaded, ds[d].parent),
               r |-> r, ret |-> IF r.stage = "ioctl" THEN ans ELSE r.ret,
               n_change_key |-> IF r.stage = "ioctl" THEN 1 ELSE 0]
    /\ e_pc' = "done"
    /\ UNCHANGED feature

(* zfs_crypto_rewrap(): the checks, the ioctl and its effect *)
Rewrap(d, raw_props, inheritkey, env, ans) ==
    /\ e_pc = "idle"
    /\ RewrapReturned(d, raw_props, inheritkey, env.valid_ok, ans,
           zfs_crypto_rewrap(ds, loaded, feature, d, raw_props, inheritkey,
                             env))

UnloadReturned(d, ans, r) ==
    /\ loaded' = IF r.stage = "ioctl" /\ ans = OK THEN loaded \ {d}
                 ELSE loaded
    /\ res' = [op |-> "unload", d |-> d,
               keystatus |-> KeystatusIn(ds, loaded, d),
               ret |-> IF r.stage = "ioctl" THEN ans ELSE r.ret,
               n_unload_key |-> IF r.stage = "ioctl" THEN 1 ELSE 0]
    /\ e_pc' = "done"
    /\ UNCHANGED <<feature, ds>>

(* zfs_crypto_unload_key(): the checks, the ioctl and its effect *)
Unload(d, ans) ==
    /\ e_pc = "idle"
    /\ UnloadReturned(d, ans, zfs_crypto_unload_key(ds, loaded, feature, d))

(* the administrator enables the feature on the pool *)
EnableFeature ==
    /\ e_pc = "idle" /\ ds # <<>> /\ ~feature
    /\ feature' = TRUE
    /\ UNCHANGED <<ds, loaded, e_pc, res>>

(* the call returns to its caller *)
Return ==
    /\ e_pc = "done"
    /\ e_pc' = "idle"
    /\ res' = NoRes
    /\ UNCHANGED <<feature, ds, loaded>>

Collects(r) == r.acq.n_acq > 0

(* the ioctl answers of a call that gets as far as the ioctl *)
RewrapAnswers(r) ==
    IF r.stage = "ioctl" THEN LzcChangeKeyAnswers ELSE {OK}

(* unload_key: Ok, NotLoaded or Busy *)
LzcUnloadKeyAnswers == {OK, ENOENT, EBUSY}

UnloadAnswers(r) == IF r.stage = "ioctl" THEN LzcUnloadKeyAnswers ELSE {OK}

TreeUnused ==
    /\ feature = FALSE /\ ds = <<>> /\ loaded = {}
    /\ e_pc = "idle" /\ res = NoRes

(***************************************************************************)
(* zfs_crypto_attempt_load_keys() and load_keys_cb(): the walk over a      *)
(* dataset and its descendants, one call of load_keys_cb() per dataset.    *)
(*                                                                         *)
(* zfs_iter_filesystems() calls the callback on each child in turn and     *)
(* stops at the first call that returns non-zero.  zfs_crypto_load_key()   *)
(* is one step here: it returns 0 with the key loaded, returns an error,   *)
(* or, when it prompts again after a failed attempt, may end the process   *)
(* in the free() of a buffer it freed before.                              *)
(***************************************************************************)
VARIABLES w_tree,          \* the datasets: parent (0 for the top) and kind
          w_loaded,        \* the encryption roots whose key is loaded
          w_pc,            \* idle, walk, report, done, crashed
          w_stack,         \* the calls of load_keys_cb() in progress
          w_visits,        \* calls of load_keys_cb() on each dataset
          cb_numattempted, \* cb.cb_numattempted
          cb_numfailed,    \* cb.cb_numfailed
          w_due,           \* datasets found at their visit to be an
                           \* encryption root with the key not loaded
          w_errs,          \* calls of zfs_crypto_load_key() that returned
                           \* an error
          w_start,         \* the dataset fsname names; 0 if there is none
          w_printed,       \* the two numbers of the printf; <<>> before it
          w_ret            \* what zfs_crypto_attempt_load_keys() returns

walkVars == <<w_tree, w_loaded, w_pc, w_stack, w_visits, cb_numattempted,
              cb_numfailed, w_due, w_errs, w_start, w_printed, w_ret>>

MaxNodes == 3

(* -1, what zfs_prop_get() and line 1153 give for a failure *)
FAILED == "-1"

(* the parent of each dataset, for the trees of at most MaxNodes datasets: *)
(* one dataset, a pair, a dataset with two children, a chain of three      *)
WalkShapes == {<<0>>, <<0, 1>>, <<0, 1, 1>>, <<0, 1, 2>>}

(* plain: not encrypted; child: encrypted, keylocation inherited; root:    *)
(* encrypted with a keylocation of its own, a file or the prompt           *)
WalkKinds == {"plain", "child", "root_file", "root_prompt"}

IsRootKind(k) == k \in {"root_file", "root_prompt"}

(* a dataset inherits its keylocation from an encrypted parent, and a      *)
(* dataset under an encrypted one is encrypted                             *)
WalkKindsOk(shape, kinds) ==
    \A n \in 1..Len(shape) :
        /\ kinds[n] = "child" =>
              shape[n] # 0 /\ kinds[shape[n]] # "plain"
        /\ kinds[n] = "plain" =>
              shape[n] = 0 \/ kinds[shape[n]] = "plain"

WalkTreesOf(shape) ==
    { [n \in 1..Len(shape) |-> [parent |-> shape[n], kind |-> kinds[n]]] :
        kinds \in { k \in [1..Len(shape) -> WalkKinds] :
                      WalkKindsOk(shape, k) } }

WalkTrees == UNION { WalkTreesOf(shape) : shape \in WalkShapes }

WalkRoots(t) == { n \in DOMAIN t : IsRootKind(t[n].kind) }

RECURSIVE WalkEncRoot(_, _)
WalkEncRoot(t, n) ==
    IF t[n].kind = "plain" THEN 0
    ELSE IF IsRootKind(t[n].kind) THEN n
    ELSE WalkEncRoot(t, t[n].parent)

(* line 1101: zfs_prop_get_int(zhp, ZFS_PROP_KEYSTATUS) *)
WalkKeystatus(t, l, n) ==
    IF t[n].kind = "plain" THEN ZFS_KEYSTATUS_NONE
    ELSE IF WalkEncRoot(t, n) \in l THEN ZFS_KEYSTATUS_AVAILABLE
    ELSE ZFS_KEYSTATUS_UNAVAILABLE

(* lines 749-780, with the failure of zfs_prop_get() of line 765 *)
WalkIsEncryptionRoot(t, n, prop_ok) ==
    IF t[n].kind = "plain" THEN [ret |-> OK, enc_root |-> FALSE]
    ELSE IF ~prop_ok THEN [ret |-> FAILED, enc_root |-> FALSE]
    ELSE IF t[n].kind = "child" THEN [ret |-> OK, enc_root |-> FALSE]
    ELSE [ret |-> OK, enc_root |-> TRUE]

(* lines 1104-1110: the callback goes on to load the key *)
WalkAttempts(q, keystatus) ==
    ~(q.ret # OK \/ ~q.enc_root) /\ keystatus # ZFS_KEYSTATUS_AVAILABLE

(* what zfs_crypto_load_key(zhp, B_FALSE, NULL) may do on an encryption    *)
(* root whose key is not loaded                                            *)
WalkLoadOutcomes(kind) ==
    {OK, EACCES} \cup (IF kind = "root_prompt" THEN {"abort"} ELSE {})

(* line 1116: if (ret) *)
LoadFailed(ret) == ret # OK

(* mutant: the callback returns what the load returned *)
load_keys_cb_result(ret) == ret

(* line 1124: always return 0 *)
load_keys_cb_return(ret) == OK

WalkFrame(n) ==
    [node |-> n, stage |-> "cb", last |-> 0, ret |-> OK, stop |-> FALSE]

WalkTop == w_stack[Len(w_stack)]

WalkCleared ==
    /\ w_stack = <<>>
    /\ w_visits = [n \in DOMAIN w_tree |-> 0]
    /\ cb_numattempted = 0 /\ cb_numfailed = 0
    /\ w_due = 0 /\ w_errs = 0
    /\ w_start = 0 /\ w_printed = <<>> /\ w_ret = OK

WalkInit ==
    /\ w_tree \in WalkTrees
    /\ w_loaded \in SUBSET WalkRoots(w_tree)
    /\ w_pc = "idle"
    /\ WalkCleared

WalkUnused ==
    /\ w_tree = <<>> /\ w_loaded = {}
    /\ w_pc = "idle"
    /\ WalkCleared

(* lines 1134-1143: cb = { 0 }; zfs_open(); the first load_keys_cb() *)
WalkCall(name) ==
    /\ w_pc = "idle"
    /\ w_start' = name
    /\ IF name = 0
       THEN /\ w_ret' = ENOENT
            /\ w_pc' = "done"
            /\ UNCHANGED w_stack
       ELSE /\ w_stack' = <<WalkFrame(name)>>
            /\ w_pc' = "walk"
            /\ UNCHANGED w_ret
    /\ UNCHANGED <<w_tree, w_loaded, w_visits, cb_numattempted, cb_numfailed,
                   w_due, w_errs, w_printed>>

WalkVisited(n, q, keystatus, attempt, outcome) ==
    /\ w_visits' = [w_visits EXCEPT ![n] = @ + 1]
    /\ cb_numattempted' = IF attempt THEN cb_numattempted + 1
                          ELSE cb_numattempted
    /\ cb_numfailed' = IF attempt /\ outcome # "abort" /\ LoadFailed(outcome)
                       THEN cb_numfailed + 1
                       ELSE cb_numfailed
    /\ w_loaded' = IF attempt /\ outcome = OK THEN w_loaded \cup {n}
                   ELSE w_loaded
    /\ w_due' = IF q.enc_root /\ n \notin w_loaded THEN w_due + 1 ELSE w_due
    /\ w_errs' = IF outcome \notin {"none", "abort", OK} THEN w_errs + 1
                 ELSE w_errs
    /\ w_stack' = [w_stack EXCEPT ![Len(w_stack)] =
                      [@ EXCEPT !.stage = "iter",
                                !.ret = IF attempt THEN outcome ELSE q.ret]]
    /\ w_pc' = IF outcome = "abort" THEN "crashed" ELSE "walk"
    /\ UNCHANGED <<w_tree, w_start, w_printed, w_ret>>

(* lines 1095-1118: load_keys_cb() down to label out *)
WalkCallback(prop_ok, outcome) ==
    /\ w_pc = "walk"
    /\ WalkTop.stage = "cb"
    /\ w_tree[WalkTop.node].kind = "plain" => prop_ok
    /\ outcome \in
          (IF WalkAttempts(WalkIsEncryptionRoot(w_tree, WalkTop.node, prop_ok),
                           WalkKeystatus(w_tree, w_loaded, WalkTop.node))
           THEN WalkLoadOutcomes(w_tree[WalkTop.node].kind)
           ELSE {"none"})
    /\ WalkVisited(WalkTop.node,
                   WalkIsEncryptionRoot(w_tree, WalkTop.node, prop_ok),
                   WalkKeystatus(w_tree, w_loaded, WalkTop.node),
                   outcome # "none", outcome)

WalkChildrenLeft(t, f) ==
    { c \in DOMAIN t : t[c].parent = f.node /\ c > f.last }

WalkFirst(S) == CHOOSE c \in S : \A d \in S : c <= d

(* zfs_iter_filesystems() hands the next child to load_keys_cb() *)
WalkDescend(c) ==
    w_stack' = Append([w_stack EXCEPT ![Len(w_stack)] =
                          [@ EXCEPT !.last = c]],
                      WalkFrame(c))

(* load_keys_cb() returns v: to zfs_iter_filesystems() of the parent, or   *)
(* to line 1143                                                            *)
WalkAscend(v) ==
    IF Len(w_stack) = 1
    THEN /\ w_stack' = <<>>
         /\ w_ret' = v
         /\ w_pc' = IF v # OK THEN "done" ELSE "report"
    ELSE /\ w_stack' = [SubSeq(w_stack, 1, Len(w_stack) - 1)
                           EXCEPT ![Len(w_stack) - 1] =
                              [@ EXCEPT !.stop = (v # OK)]]
         /\ UNCHANGED <<w_ret, w_pc>>

(* lines 1119-1124: label out; the children, zfs_close(), return *)
WalkIter ==
    /\ w_pc = "walk"
    /\ WalkTop.stage = "iter"
    /\ IF WalkChildrenLeft(w_tree, WalkTop) # {} /\ ~WalkTop.stop
       THEN /\ WalkDescend(WalkFirst(WalkChildrenLeft(w_tree, WalkTop)))
            /\ UNCHANGED <<w_ret, w_pc>>
       ELSE WalkAscend(load_keys_cb_return(WalkTop.ret))
    /\ UNCHANGED <<w_tree, w_loaded, w_visits, cb_numattempted, cb_numfailed,
                   w_due, w_errs, w_start, w_printed>>

(* lines 1147-1158: the printf and the result *)
WalkReport ==
    /\ w_pc = "report"
    /\ w_printed' = <<cb_numattempted - cb_numfailed, cb_numattempted>>
    /\ w_ret' = IF cb_numfailed # 0 THEN FAILED ELSE OK
    /\ w_pc' = "done"
    /\ UNCHANGED <<w_tree, w_loaded, w_stack, w_visits, cb_numattempted,
                   cb_numfailed, w_due, w_errs, w_start>>

(* the call has returned; the next call starts with cb = { 0 } *)
WalkReturn ==
    /\ w_pc = "done"
    /\ w_pc' = "idle"
    /\ w_stack' = <<>>
    /\ w_visits' = [n \in DOMAIN w_tree |-> 0]
    /\ cb_numattempted' = 0 /\ cb_numfailed' = 0
    /\ w_due' = 0 /\ w_errs' = 0
    /\ w_start' = 0 /\ w_printed' = <<>> /\ w_ret' = OK
    /\ UNCHANGED <<w_tree, w_loaded>>

(***************************************************************************)
(* The specifications.  Each runs one part of the program; the variables   *)
(* of the other parts keep their initial values.                           *)
(***************************************************************************)
LoadUnused ==
    /\ zh = (CHOOSE d \in LoadDatasets : ~d.feature)
    /\ tty = FALSE
    /\ LoadIdle

TermUnused ==
    /\ t_pc = "idle" /\ t_isatty = FALSE
    /\ term_lflag = EchoFlags \cup OtherFlags
    /\ sigint_disp = "SIG_DFL" /\ sigtstp_disp = "SIG_DFL"
    /\ caught_interrupt = NOSIG
    /\ old_term = "unset" /\ osigint = "unset" /\ osigtstp = "unset"
    /\ t_ret = OK /\ t_alive = TRUE
    /\ t_pre = [first |-> TermNow, call |-> TermNow] /\ t_how = "none"
    /\ n_caught = 0 /\ n_rethrown = 0 /\ rethrown_at = TermNow
    /\ n_signals = 0

vars == <<loadVars, termVars, treeVars, walkVars, keyVars>>

(* the datasets a handle h stands for: the dataset itself when it is not   *)
(* encrypted or has a keylocation of its own, else its encryption root and *)
(* the dataset under it                                                    *)
HandleRoot(h) ==
    [parent |-> 0,
     crypt |-> IF h.keyformat = ZFS_KEYFORMAT_NONE THEN ZIO_CRYPT_OFF
               ELSE ZIO_CRYPT_ON,
     is_local |-> h.keyformat # ZFS_KEYFORMAT_NONE,
     keyformat |-> h.keyformat,
     keylocation |-> IF h.keyformat = ZFS_KEYFORMAT_NONE THEN <<>>
                     ELSE h.keylocation]

HandleTree(h) ==
    IF h.srctype = ZPROP_SRC_INHERITED
    THEN <<HandleRoot(h), NewDataset(1, ZIO_CRYPT_ON, NVL_EMPTY)>>
    ELSE <<HandleRoot(h)>>

HandleIndex(h) == Len(HandleTree(h))

HandleLoaded(h) ==
    IF h.keystatus = ZFS_KEYSTATUS_AVAILABLE THEN {1} ELSE {}

UnloadCallReturned(ans, r) ==
    /\ l_op' = "unload" /\ l_status0' = zh.keystatus
    /\ l_ret' = IF r.stage = "ioctl" THEN ans ELSE r.ret
    /\ l_cause' = IF r.stage = "ioctl" THEN "none" ELSE "precheck"
    /\ n_unload' = IF r.stage = "ioctl" THEN 1 ELSE 0
    /\ zh' = IF r.stage = "ioctl" /\ ans = OK
             THEN [zh EXCEPT !.keystatus = ZFS_KEYSTATUS_UNAVAILABLE]
             ELSE zh
    /\ l_pc' = "done"
    /\ UNCHANGED <<tty, l_noop, l_keylocation, attempts, can_retry,
                   correctible, key_material, key_data, l_seen, n_acq,
                   n_prompts, n_ioctl, double_free, l_prev>>

(* zfs_crypto_unload_key(zhp): the checks, the ioctl and its effect *)
UnloadCall(ans) ==
    /\ l_pc = "idle"
    /\ UnloadCallReturned(ans,
           zfs_crypto_unload_key(HandleTree(zh), HandleLoaded(zh),
                                 zh.feature, HandleIndex(zh)))

LoadNext ==
    \/ /\ \E noop \in BOOLEAN,
             alt \in {<<>>, STR_prompt, STR_file_k, STR_none} :
             LoadCall(noop, alt)
       /\ UNCHANGED <<termVars, treeVars, walkVars, keyVars>>
    \/ /\ \E rd \in ReadsFor(zh.keyformat), fopen_ok \in BOOLEAN :
             LoadGetKey(rd, fopen_ok)
       /\ UNCHANGED <<termVars, treeVars, walkVars, keyVars>>
    \/ /\ \E mem_ok \in BOOLEAN, crypto_ok \in BOOLEAN :
             LoadDerive([mem_ok |-> mem_ok, crypto_ok |-> crypto_ok])
       /\ UNCHANGED <<termVars, treeVars, walkVars, keyVars>>
    \/ /\ \E ans \in {OK, EACCES, EINVAL, EEXIST, EBUSY} : LoadIoctl(ans)
       /\ UNCHANGED <<termVars, treeVars, walkVars, keyVars>>
    \/ /\ \E aborts \in BOOLEAN : LoadError(aborts)
       /\ UNCHANGED <<termVars, treeVars, walkVars, keyVars>>
    \/ /\ l_pc = "idle"
       /\ \E ans \in UnloadAnswers(
                  zfs_crypto_unload_key(HandleTree(zh), HandleLoaded(zh),
                                        zh.feature, HandleIndex(zh))) :
             UnloadCall(ans)
       /\ UNCHANGED <<termVars, treeVars, walkVars, keyVars>>
    \/ /\ LoadReturn
       /\ UNCHANGED <<termVars, treeVars, walkVars, keyVars>>

LoadSpecInit ==
    LoadInit /\ TermUnused /\ TreeUnused /\ WalkUnused /\ KeyIdle

SpecLoad == LoadSpecInit /\ [][LoadNext]_vars

TermNext ==
    \/ /\ \E isatty \in BOOLEAN : TermCall(isatty)
       /\ UNCHANGED <<loadVars, treeVars, walkVars, keyVars>>
    \/ /\ TermReset
       /\ UNCHANGED <<loadVars, treeVars, walkVars, keyVars>>
    \/ /\ TermInstallSigint
       /\ UNCHANGED <<loadVars, treeVars, walkVars, keyVars>>
    \/ /\ TermIgnoreSigtstp
       /\ UNCHANGED <<loadVars, treeVars, walkVars, keyVars>>
    \/ /\ TermTcget
       /\ UNCHANGED <<loadVars, treeVars, walkVars, keyVars>>
    \/ /\ \E ok \in BOOLEAN : TermTcset(ok)
       /\ UNCHANGED <<loadVars, treeVars, walkVars, keyVars>>
    \/ /\ \E ok \in BOOLEAN : TermRead(ok)
       /\ UNCHANGED <<loadVars, treeVars, walkVars, keyVars>>
    \/ /\ TermOutTc
       /\ UNCHANGED <<loadVars, treeVars, walkVars, keyVars>>
    \/ /\ TermOutSigint
       /\ UNCHANGED <<loadVars, treeVars, walkVars, keyVars>>
    \/ /\ TermOutSigtstp
       /\ UNCHANGED <<loadVars, treeVars, walkVars, keyVars>>
    \/ /\ TermOutKill
       /\ UNCHANGED <<loadVars, treeVars, walkVars, keyVars>>
    \/ /\ TermReturn
       /\ UNCHANGED <<loadVars, treeVars, walkVars, keyVars>>
    \/ /\ TermBack
       /\ UNCHANGED <<loadVars, treeVars, walkVars, keyVars>>
    \/ /\ \E in_read \in BOOLEAN : SigintArrives(in_read)
       /\ UNCHANGED <<loadVars, treeVars, walkVars, keyVars>>
    \/ /\ SigtstpArrives
       /\ UNCHANGED <<loadVars, treeVars, walkVars, keyVars>>

TermSpecInit ==
    TermInit /\ LoadUnused /\ TreeUnused /\ WalkUnused /\ KeyIdle

SpecTerm == TermSpecInit /\ [][TermNext]_vars

(* the arguments of a key change: every property list with              *)
(* zfs_valid_proplist() accepting it; two of them with it refusing and    *)
(* the unassigned ret then holding 0 or something else; and the inherit   *)
(* variant, which does not look at the properties                         *)
RewrapArgs ==
    { <<p, FALSE, TRUE, OK>> : p \in RewrapProps }
    \cup { <<p, FALSE, FALSE, junk>> :
             p \in {NVL_EMPTY,
                    PropsOf(ABSENT, ZFS_KEYFORMAT_PASSPHRASE, <<>>, 0,
                            FALSE)},
             junk \in {OK, EINVAL} }
    \cup { <<p, TRUE, TRUE, OK>> :
             p \in {NVL_EMPTY,
                    PropsOf(ABSENT, ZFS_KEYFORMAT_HEX, <<>>, 0, FALSE)} }

Next ==
    \/ /\ e_pc = "idle"
       /\ \E parent_name \in ParentNames, props \in CreateProps :
          \E pool_feature \in IF parent_name = 0 THEN BOOLEAN ELSE {FALSE} :
          \E env \in EnvsFor(
                   Collects(zfs_crypto_create(ds, feature, parent_name,
                       props, pool_feature, Env0(ArgKeyformat(props)))),
                   ArgKeyformat(props)) :
             Create(parent_name, props, pool_feature, env)
       /\ UNCHANGED <<loadVars, termVars, walkVars, keyVars>>
    \/ /\ e_pc = "idle"
       /\ \E origin \in 1..Len(ds), parent_name \in ParentNames,
             props \in CreateProps, out0 \in OutBefore :
          \E env \in EnvsFor(
                   Collects(zfs_crypto_clone(ds, loaded, origin, parent_name,
                       props, Env0(ArgKeyformat(props)), out0)),
                   ArgKeyformat(props)) :
             Clone(origin, parent_name, props, env, out0)
       /\ UNCHANGED <<loadVars, termVars, walkVars, keyVars>>
    \/ /\ e_pc = "idle"
       /\ \E d \in 1..Len(ds), a \in RewrapArgs :
          \E env \in { [e EXCEPT !.valid_ok = a[3], !.junk = a[4]] :
                        e \in EnvsFor(
                            Collects(zfs_crypto_rewrap(ds, loaded, feature, d,
                                a[1], a[2],
                                [Env0(KeyformatIn(ds, d))
                                    EXCEPT !.valid_ok = a[3],
                                           !.junk = a[4]])),
                            IF ArgKeyformat(a[1]) = ZFS_KEYFORMAT_NONE
                            THEN KeyformatIn(ds, d)
                            ELSE ArgKeyformat(a[1])) } :
          \E ans \in RewrapAnswers(zfs_crypto_rewrap(ds, loaded, feature, d,
                                                     a[1], a[2], env)) :
             Rewrap(d, a[1], a[2], env, ans)
       /\ UNCHANGED <<loadVars, termVars, walkVars, keyVars>>
    \/ /\ e_pc = "idle"
       /\ \E d \in 1..Len(ds) :
          \E ans \in UnloadAnswers(zfs_crypto_unload_key(ds, loaded, feature,
                                                         d)) :
             Unload(d, ans)
       /\ UNCHANGED <<loadVars, termVars, walkVars, keyVars>>
    \/ /\ EnableFeature
       /\ UNCHANGED <<loadVars, termVars, walkVars, keyVars>>
    \/ /\ Return
       /\ UNCHANGED <<loadVars, termVars, walkVars, keyVars>>

Init == TreeInit /\ LoadUnused /\ TermUnused /\ WalkUnused /\ KeyIdle

Spec == Init /\ [][Next]_vars

WalkNext ==
    \/ /\ w_pc = "idle"
       /\ \E name \in 0..Len(w_tree) : WalkCall(name)
       /\ UNCHANGED <<loadVars, termVars, treeVars, keyVars>>
    \/ /\ w_pc = "walk"
       /\ \E prop_ok \in BOOLEAN, outcome \in {OK, EACCES, "abort", "none"} :
             WalkCallback(prop_ok, outcome)
       /\ UNCHANGED <<loadVars, termVars, treeVars, keyVars>>
    \/ /\ WalkIter
       /\ UNCHANGED <<loadVars, termVars, treeVars, keyVars>>
    \/ /\ WalkReport
       /\ UNCHANGED <<loadVars, termVars, treeVars, keyVars>>
    \/ /\ WalkReturn
       /\ UNCHANGED <<loadVars, termVars, treeVars, keyVars>>

WalkSpecInit ==
    WalkInit /\ LoadUnused /\ TermUnused /\ TreeUnused /\ KeyIdle

SpecWalk == WalkSpecInit /\ [][WalkNext]_vars

(***************************************************************************)
(* The round trip: an encryption root is made by zfs_crypto_create() or    *)
(* given a new key by zfs_crypto_rewrap(), and its key is then loaded as   *)
(* zfs_crypto_load_key() does.  The storage layer is not part of this      *)
(* file; what it keeps of an accepted request is taken from the design     *)
(* document: the properties handed to it and the wrapping key.             *)
(***************************************************************************)
(* the root the storage layer holds after a request with these properties  *)
(* and this wrapping key; a property that is not given stays as it was in  *)
(* old.  tty_ and rd: where and from what the key was read.                *)
StoredRoot(keyformat, keylocation, props, wkey, old, tty_, rd) ==
    [exists |-> TRUE, keyformat |-> keyformat, keylocation |-> keylocation,
     tty |-> tty_,
     salt |-> IF nvlist_exists(props, "pbkdf2salt") THEN props.pbkdf2salt
              ELSE old.salt,
     iters |-> IF nvlist_exists(props, "pbkdf2iters") THEN props.pbkdf2iters
               ELSE old.iters,
     wkey |-> wkey, rd |-> rd]

(* the root as the one dataset of a pool *)
RootTree(h) ==
    << [parent |-> 0, crypt |-> ZIO_CRYPT_ON, is_local |-> TRUE,
        keyformat |-> h.keyformat, keylocation |-> h.keylocation] >>

(* mutant: Load takes the salt to be 0 *)
LoadSaltNone(h) == 0

(* lines 1241-1244: the salt and the iterations Load derives with *)
LoadSalt(h) ==
    IF h.keyformat = ZFS_KEYFORMAT_PASSPHRASE THEN h.salt ELSE 0

LoadIters(h) ==
    IF h.keyformat = ZFS_KEYFORMAT_PASSPHRASE THEN h.iters ELSE 0

(* the keys a root is made with *)
TripMaterial(keyformat) ==
    CASE keyformat = ZFS_KEYFORMAT_PASSPHRASE ->
            {PassA, PassB, Rep(97, MAX_PASSPHRASE_LEN),
             [PassA EXCEPT ![3] = 0], [PassB EXCEPT ![3] = 0]}
      [] keyformat = ZFS_KEYFORMAT_HEX -> {HexA, HexMixed}
      [] OTHER -> {RawA, RawB, Rep(1, WRAPPING_KEY_LEN - 1) \o <<NL>>,
                   RawA \o <<NL>>}

TripRead(keyformat, m) ==
    IF keyformat = ZFS_KEYFORMAT_RAW THEN Data(m) ELSE Data(Line(m))

(* the surroundings of a Create or Rekey: the key, entered twice when at  *)
(* a terminal, and the salt the random source gives                       *)
TripEnvs(keyformat) ==
    { [Env(t, TripRead(keyformat, m), TripRead(keyformat, m), TRUE, TRUE,
           TRUE, TRUE) EXCEPT !.salt = sa] :
        t \in BOOLEAN, m \in TripMaterial(keyformat), sa \in {1, 16909060} }

TripCreateProps ==
    { PropsOf(ZIO_CRYPT_ON, kf, kl, it, FALSE) :
        kf \in {ZFS_KEYFORMAT_RAW, ZFS_KEYFORMAT_HEX,
                 ZFS_KEYFORMAT_PASSPHRASE},
        kl \in {<<>>, STR_file_k}, it \in {0, MaxKeyIters} }

TripRekeyProps ==
    { PropsOf(ABSENT, kf, kl, it, FALSE) :
        kf \in {ABSENT, ZFS_KEYFORMAT_HEX, ZFS_KEYFORMAT_PASSPHRASE},
        kl \in {<<>>, STR_prompt}, it \in {0, 1} }

(* the keyformat a Rekey with these properties collects its key for *)
RekeyFormat(h, props) ==
    IF nvlist_exists(props, "keyformat") THEN props.keyformat
    ELSE h.keyformat

KeyCreateReturned(props, env, r) ==
    /\ k_root' = IF r.ret = OK /\ r.wkeydata_out.ptr = "live"
                 THEN StoredRoot(r.props.keyformat, r.props.keylocation,
                                 r.props, r.wkeydata_out.key, KeyNoRoot,
                                 env.tty, env.rd1)
                 ELSE k_root
    /\ UNCHANGED <<k_pc, k_in, k_gkm, k_der, k_raw, k_ans>>

(* zfs_crypto_create() of a dataset at the top of a pool, and the creation *)
KeyCreate(props, env) ==
    /\ k_pc = "idle"
    /\ ~k_root.exists
    /\ KeyCreateReturned(props, env,
           zfs_crypto_create(<<>>, FALSE, 0, props, TRUE, env))

KeyRekeyReturned(env, ans, r) ==
    /\ k_root' = IF r.stage = "ioctl" /\ ans = OK
                 THEN StoredRoot(
                          Rewrapped(RootTree(k_root), 1, r.props,
                                    FALSE).keyformat,
                          Rewrapped(RootTree(k_root), 1, r.props,
                                    FALSE).keylocation,
                          r.props, r.wkeydata.key, k_root, env.tty, env.rd1)
                 ELSE k_root
    /\ UNCHANGED <<k_pc, k_in, k_gkm, k_der, k_raw, k_ans>>

(* zfs_crypto_rewrap() of the root with a new key, its key being loaded *)
KeyRekey(raw_props, env, ans) ==
    /\ k_pc = "idle"
    /\ k_root.exists
    /\ KeyRekeyReturned(env, ans,
           zfs_crypto_rewrap(RootTree(k_root), {1}, TRUE, 1, raw_props,
                             FALSE, env))

(* zfs_crypto_load_key() of the root up to derive_key(), lines 1240-1255:  *)
(* the key is read from rd, at a terminal or not                           *)
KeyLoad(tty_, rd) ==
    /\ k_pc = "idle"
    /\ k_root.exists
    /\ KeyAcquired(
           KeyIn(FALSE, k_root.keyformat, k_root.keylocation, tty_, rd, rd,
                 LoadSalt(k_root), LoadIters(k_root)),
           get_key_material(FALSE, k_root.keyformat, k_root.keylocation,
                            tty_, [rd1 |-> rd, rd2 |-> rd,
                                   fopen_ok |-> TRUE]))

(* lines 1265-1267: lzc_load_key() with the derived key *)
KeyLoadIoctl(ans) ==
    /\ k_pc = "derived"
    /\ k_root.exists
    /\ k_der.ret = OK
    /\ ans \in LzcLoadKeyAnswers(k_root, FALSE, k_der.key)
    /\ k_ans' = ans
    /\ k_pc' = "answered"
    /\ UNCHANGED <<k_in, k_gkm, k_der, k_raw, k_root>>

(* the root is destroyed *)
KeyForget ==
    /\ k_pc = "idle"
    /\ k_root.exists
    /\ k_root' = KeyNoRoot
    /\ UNCHANGED <<k_pc, k_in, k_gkm, k_der, k_raw, k_ans>>

KeyDeriveEnvs ==
    {EnvOk, [mem_ok |-> FALSE, crypto_ok |-> TRUE],
     [mem_ok |-> TRUE, crypto_ok |-> FALSE]}

KeyNext ==
    \/ /\ k_pc = "idle"
       /\ ~k_root.exists
       /\ \E in \in KeyInputs : KeyAcquire(in)
       /\ UNCHANGED <<loadVars, termVars, treeVars, walkVars>>
    \/ /\ k_pc = "idle"
       /\ \E props \in TripCreateProps :
          \E env \in TripEnvs(props.keyformat) : KeyCreate(props, env)
       /\ UNCHANGED <<loadVars, termVars, treeVars, walkVars>>
    \/ /\ k_pc = "idle"
       /\ k_root.exists
       /\ \E props \in TripRekeyProps, ans \in LzcChangeKeyAnswers :
          \E env \in TripEnvs(RekeyFormat(k_root, props)) :
             KeyRekey(props, env, ans)
       /\ UNCHANGED <<loadVars, termVars, treeVars, walkVars>>
    \/ /\ k_pc = "idle"
       /\ k_root.exists
       /\ \E t \in BOOLEAN,
             rd \in {k_root.rd, OtherRead(k_root.keyformat)} :
             KeyLoad(t, rd)
       /\ UNCHANGED <<loadVars, termVars, treeVars, walkVars>>
    \/ /\ k_pc = "derived"
       /\ \E ans \in {OK, EACCES, EINVAL, EEXIST, EBUSY} : KeyLoadIoctl(ans)
       /\ UNCHANGED <<loadVars, termVars, treeVars, walkVars>>
    \/ /\ KeyForget
       /\ UNCHANGED <<loadVars, termVars, treeVars, walkVars>>
    \/ /\ k_pc = "acquired"
       /\ \E env \in KeyDeriveEnvs : KeyDerive(env)
       /\ UNCHANGED <<loadVars, termVars, treeVars, walkVars>>
    \/ /\ KeyDone
       /\ UNCHANGED <<loadVars, termVars, treeVars, walkVars>>

KeySpecInit ==
    KeyIdle /\ LoadUnused /\ TermUnused /\ TreeUnused /\ WalkUnused

SpecKey == KeySpecInit /\ [][KeyNext]_vars

(***************************************************************************)
(*                      Properties of zfs_crypto_load_key                  *)
(***************************************************************************)
LoadFromTty == l_pc # "idle" /\ IsTtySource(l_keylocation, tty)

(* every key submitted so far in this call was answered AccessDenied, and  *)
(* nothing else went wrong                                                 *)
AllDenied ==
    /\ LoadFromTty
    /\ l_seen \subseteq {EACCES}
    /\ l_pc = "done" => l_ret = EACCES

(* C1: a Load from an interactive terminal in which the storage layer      *)
(* answers AccessDenied to every key prompts at most three times, calls    *)
(* lzc_load_key at most three times, and returns AccessDenied after        *)
(* exactly three entries.                                                  *)
C1_ThreeEntries ==
    AllDenied =>
        /\ n_prompts <= MAX_KEY_PROMPT_ATTEMPTS
        /\ n_ioctl <= MAX_KEY_PROMPT_ATTEMPTS
        /\ l_pc = "done" =>
              /\ n_prompts = MAX_KEY_PROMPT_ATTEMPTS
              /\ n_ioctl = MAX_KEY_PROMPT_ATTEMPTS

(* what the code does instead: the call returns after five entries *)
C1_FiveEntries ==
    /\ AllDenied /\ l_pc = "done"
    /\ attempts = MAX_KEY_PROMPT_ATTEMPTS + 1
    /\ n_prompts = MAX_KEY_PROMPT_ATTEMPTS + 2
    /\ n_ioctl = MAX_KEY_PROMPT_ATTEMPTS + 2

(* the failures of the acquisition-time validation *)
ValidationCauses == {"validate", "rawtty"}

C3_FileNeverRetried ==
    (l_pc # "idle" /\ ~IsTtySource(l_keylocation, tty)) =>
        /\ attempts = 0
        /\ n_acq <= 1
        /\ n_ioctl <= 1
        /\ n_prompts = 0
        /\ l_pc # "try_again" \/ n_acq = 0
        /\ (l_pc = "done" /\ l_cause = EACCES) =>
              (l_ret = EACCES /\ n_ioctl = 1 /\ n_acq = 1)

C3_Witness ==
    /\ l_pc = "done"
    /\ zfs_prop_parse_keylocation(l_keylocation) = ZFS_KEYLOCATION_URI
    /\ l_cause = EACCES /\ l_ret = EACCES
    /\ n_acq = 1 /\ n_ioctl = 1

(***************************************************************************)
(*                    Properties of get_key_material_raw                   *)
(***************************************************************************)

(* C4: when an acquisition from a terminal has returned, however it ended  *)
(* (key read, read error, tcsetattr failure, interrupt caught), the        *)
(* terminal flags and the SIGINT and SIGTSTP dispositions are those of     *)
(* before the call, and, over any sequence of calls, those of before the   *)
(* first.                                                                  *)
C4_TerminalRestored ==
    (t_alive /\ t_pc \in {"returned", "idle"}) =>
        /\ TermNow = t_pre.call
        /\ TermNow = t_pre.first

(* an interrupted acquisition has returned, on a terminal that echoed and  *)
(* in a process with its own SIGINT and SIGTSTP handlers                   *)
C4_Witness ==
    /\ t_pc = "returned" /\ t_isatty /\ t_alive
    /\ t_how = "interrupted" /\ t_ret = EINTR
    /\ "ECHO" \in term_lflag
    /\ sigint_disp = "caller_handler" /\ sigtstp_disp = "caller_handler"

(* C5: a SIGINT taken by the recording handler is sent again to the        *)
(* process before the acquisition returns, once, and only when the         *)
(* terminal flags and both dispositions are back to those of before the    *)
(* call; nothing is re-sent that was not caught.                           *)
C5_InterruptRethrown ==
    /\ (t_pc \in {"return", "returned"} /\ n_caught > 0) => n_rethrown = 1
    /\ n_rethrown > 0 =>
          (n_rethrown = 1 /\ n_caught > 0 /\ rethrown_at = t_pre.call)
    /\ (t_pc \in {"return", "returned"} /\ t_isatty /\ n_caught = 0) =>
          caught_interrupt = NOSIG

(* a key was read, a SIGINT came in meanwhile, and the caller's handler    *)
(* got it after the restoration                                            *)
C5_Witness ==
    /\ t_pc = "returned" /\ t_alive /\ t_how = "read"
    /\ n_caught > 0 /\ n_rethrown = 1
    /\ rethrown_at.sigint = "caller_handler"
    /\ "ECHO" \in rethrown_at.lflag


(***************************************************************************)
(*          Properties of zfs_crypto_create and zfs_crypto_clone           *)
(***************************************************************************)
(* the call that is done is a zfs_crypto_create / zfs_crypto_clone *)
CreateDone == e_pc = "done" /\ res.op = "create"
CloneDone == e_pc = "done" /\ res.op = "clone"
MakeDone == CreateDone \/ CloneDone

(* the parent named in the call exists and is encrypted / is not *)
ParentFound == res.parent \in 1..Len(ds)
ParentEncrypted == ParentFound /\ ds[res.parent].crypt # ZIO_CRYPT_OFF
ParentPlain ==
    \/ res.op = "create" /\ res.parent = 0
    \/ ParentFound /\ ds[res.parent].crypt = ZIO_CRYPT_OFF

Encrypted(d) == ds[d].crypt # ZIO_CRYPT_OFF

(* C6: every dataset that Create or Clone accepts under an encrypted       *)
(* parent is encrypted: Create with encryption=off under an encrypted      *)
(* parent is rejected with EINVAL, Create without an encryption property   *)
(* takes the parent's encryption, Clone of an unencrypted origin under an  *)
(* encrypted parent is rejected with EINVAL; and in the tree no dataset    *)
(* with an encrypted parent is unencrypted.                                *)
C6_ChildOfEncryptedIsEncrypted ==
    /\ \A d \in 1..Len(ds) :
          (ds[d].parent # 0 /\ Encrypted(ds[d].parent)) => Encrypted(d)
    /\ (MakeDone /\ ParentEncrypted) =>
          /\ res.r.ret = OK => res.child.crypt # ZIO_CRYPT_OFF
          /\ (CreateDone /\ nvlist_exists(res.props_in, "encryption")
                /\ res.props_in.encryption = ZIO_CRYPT_OFF) =>
                (res.r.ret = EINVAL /\ res.created = 0)
          /\ (CreateDone /\ ~nvlist_exists(res.props_in, "encryption")
                /\ res.r.ret = OK) =>
                res.child.crypt = ds[res.parent].crypt
          /\ (CloneDone /\ ~Encrypted(res.origin)) =>
                (res.r.ret = EINVAL /\ res.created = 0)

(* a Create without an encryption property is accepted under an encrypted  *)
(* parent and the dataset is added, encrypted                              *)
C6_Witness ==
    /\ CreateDone /\ ParentEncrypted
    /\ ~nvlist_exists(res.props_in, "encryption")
    /\ res.r.ret = OK /\ res.created = Len(ds)
    /\ ds[res.created].parent = res.parent
    /\ Encrypted(res.created)

(* C7: every encrypted dataset has an encryption root, itself or an        *)
(* ancestor, whose keyformat is not none, after any sequence of accepted   *)
(* Create, Clone and Rewrap calls; an encrypted Create or Clone under an   *)
(* unencrypted parent without a keyformat is rejected, and so is a         *)
(* keylocation without a keyformat on a dataset that would be encrypted.   *)
C7_EncryptedHasKeyedRoot ==
    /\ \A d \in 1..Len(ds) :
          Encrypted(d) =>
             /\ EncRootIn(ds, d) # 0
             /\ ds[EncRootIn(ds, d)].keyformat # ZFS_KEYFORMAT_NONE
    /\ (MakeDone /\ res.r.ret = OK /\ res.child.crypt # ZIO_CRYPT_OFF) =>
          /\ ParentPlain => ArgKeyformat(res.props_in) # ZFS_KEYFORMAT_NONE
          /\ nvlist_exists(res.props_in, "keylocation") =>
                ArgKeyformat(res.props_in) # ZFS_KEYFORMAT_NONE
          /\ res.child.is_local =>
                res.child.keyformat # ZFS_KEYFORMAT_NONE

(* a key change to a new format has been accepted on a dataset that a      *)
(* Clone made an encryption root                                           *)
C7_Witness ==
    /\ e_pc = "done" /\ res.op = "rewrap" /\ ~res.inheritkey
    /\ res.ret = OK /\ res.n_change_key = 1
    /\ nvlist_exists(res.props_in, "keyformat")
    /\ Len(ds) = 2 /\ Encrypted(1) /\ Encrypted(2)
    /\ EncRootIn(ds, 2) = 2 /\ EncRootIn(ds, 1) = 1
    /\ ds[2].keyformat # ds[1].keyformat

(* the Create of C8: feature enabled, parent unencrypted, the properties   *)
(* as given                                                                *)
CreateUnderPlain(props) ==
    /\ CreateDone /\ res.enabled /\ ParentPlain
    /\ res.props_in = props

OnlyPassphrase ==
    PropsOf(ABSENT, ZFS_KEYFORMAT_PASSPHRASE, <<>>, 0, FALSE)
OnAndPassphrase ==
    PropsOf(ZIO_CRYPT_ON, ZFS_KEYFORMAT_PASSPHRASE, <<>>, 0, FALSE)

(* the keylocation was defaulted to prompt and added to the properties,    *)
(* and the key collection was run once: on the terminal when there is one  *)
KeyCollectedAtPrompt ==
    /\ res.r.stage \in {"keys", "accepted"}
    /\ nvlist_exists(res.r.props, "keylocation")
    /\ res.r.props.keylocation = STR_prompt
    /\ res.r.acq.n_acq = 1
    /\ ~res.r.acq.opened

(* the accepted dataset is an encryption root with a 32-byte wrapping key *)
AcceptedAsRoot ==
    /\ res.child.crypt # ZIO_CRYPT_OFF /\ res.child.is_local
    /\ res.child.keyformat = ZFS_KEYFORMAT_PASSPHRASE
    /\ res.child.keylocation = STR_prompt
    /\ res.r.wkeydata_out.ptr = "live"
    /\ res.r.wkeylen_out = WRAPPING_KEY_LEN
    /\ res.r.acq.n_derive = 1

(* C8 as stated: Create under an unencrypted parent, feature enabled, with *)
(* keyformat=passphrase as the only property: keylocation defaults to      *)
(* prompt and is added to the properties, the key collection is run, and   *)
(* the dataset is accepted as an encryption root.                          *)
C8_KeyformatAloneMakesRoot ==
    CreateUnderPlain(OnlyPassphrase) =>
        /\ KeyCollectedAtPrompt
        /\ res.r.ret = OK => AcceptedAsRoot

(* C8, amended: with keyformat=passphrase as the only property the         *)
(* effective encryption is the parent's, off, and the Create is rejected   *)
(* with EINVAL before any key is collected; with encryption=on given as    *)
(* well, keylocation defaults to prompt and is added to the properties,    *)
(* the key collection is run, and when it succeeds the dataset is          *)
(* accepted as an encryption root with a 32-byte wrapping key.             *)
C8_DefaultKeylocationNeedsEncryptionOn ==
    /\ CreateUnderPlain(OnlyPassphrase) =>
          /\ res.r.ret = EINVAL /\ res.r.stage = "policy"
          /\ res.r.acq.n_acq = 0 /\ res.created = 0
          /\ ~nvlist_exists(res.r.props, "keylocation")
    /\ CreateUnderPlain(OnAndPassphrase) =>
          /\ KeyCollectedAtPrompt
          /\ res.r.ret = OK <=> res.r.stage = "accepted"
          /\ res.r.ret = OK => AcceptedAsRoot

C8_Witness ==
    /\ CreateUnderPlain(OnAndPassphrase)
    /\ res.r.ret = OK /\ AcceptedAsRoot /\ KeyCollectedAtPrompt
    /\ res.created = Len(ds) /\ res.created \in loaded

(* C9 as stated: a successful Create returns a wrapping key iff the        *)
(* dataset becomes a new encryption root, and the key is then 32 bytes;    *)
(* under an encrypted parent with neither keyformat nor keylocation (and   *)
(* encryption not switched off) the Create is accepted with no wrapping    *)
(* key, length 0, and no key material is acquired; every failed Create or  *)
(* Clone returns a null wrapping key of length 0.                          *)
C9_KeyIffNewRoot ==
    /\ (CreateDone /\ res.r.ret = OK) =>
          /\ res.r.wkeydata_out.ptr = "live" <=> res.child.is_local
          /\ res.r.wkeydata_out.ptr = "live" =>
                (res.r.wkeylen_out = WRAPPING_KEY_LEN
                   /\ Len(res.r.wkeydata_out.key) = WRAPPING_KEY_LEN)
    /\ (CreateDone /\ ParentEncrypted
          /\ ~nvlist_exists(res.props_in, "keyformat")
          /\ ~nvlist_exists(res.props_in, "keylocation")
          /\ ~(nvlist_exists(res.props_in, "encryption")
                 /\ res.props_in.encryption = ZIO_CRYPT_OFF)) =>
          /\ res.r.ret = OK
          /\ res.r.wkeydata_out = NoKey /\ res.r.wkeylen_out = 0
          /\ res.r.acq.n_acq = 0
    /\ (MakeDone /\ res.r.ret # OK) =>
          (res.r.wkeydata_out = NoKey /\ res.r.wkeylen_out = 0)

(* a Clone has failed and the caller's wkeydata_out and wkeylen_out hold   *)
(* what they held before the call: a pointer that is not null, length 32   *)
C9_FailedCloneLeavesOutParams ==
    /\ CloneDone /\ res.r.ret = ENOENT /\ res.r.stage = "lookup"
    /\ res.r.wkeydata_out.ptr = "stale"
    /\ res.r.wkeylen_out = WRAPPING_KEY_LEN

(* the Clone of C10: the origin is encrypted and its key is not loaded *)
CloneOfLockedOrigin ==
    /\ CloneDone /\ Encrypted(res.origin)
    /\ res.okey_status = ZFS_KEYSTATUS_UNAVAILABLE

(* C10 as stated: Clone of an encrypted origin whose key is unavailable    *)
(* returns EACCES whatever the other properties and the parent are, and    *)
(* never acquires key material.                                            *)
C10_LockedOriginAlwaysDenied ==
    CloneOfLockedOrigin =>
        (res.r.ret = EACCES /\ res.r.acq.n_acq = 0)

(* C10, amended: Clone of an encrypted origin whose key is unavailable     *)
(* never succeeds and never acquires key material; it returns ENOENT when  *)
(* the parent cannot be looked up, EINVAL when an encryption property is   *)
(* given or a keylocation is given without a keyformat, and EACCES for     *)
(* every other combination of keyformat, keylocation and parent.           *)
C10_LockedOriginDeniedAfterArgumentChecks ==
    CloneOfLockedOrigin =>
        /\ res.r.acq.n_acq = 0 /\ res.created = 0
        /\ res.r.ret =
              IF ~ParentFound THEN ENOENT
              ELSE IF nvlist_exists(res.props_in, "encryption") THEN EINVAL
              ELSE IF nvlist_exists(res.props_in, "keylocation")
                      /\ ArgKeyformat(res.props_in) = ZFS_KEYFORMAT_NONE
              THEN EINVAL
              ELSE EACCES

(* a Clone that brings a key format and a key file, under an unencrypted   *)
(* parent, is denied because the origin's key is not loaded                *)
C10_Witness ==
    /\ CloneOfLockedOrigin /\ ParentFound /\ ParentPlain
    /\ ArgKeyformat(res.props_in) = ZFS_KEYFORMAT_HEX
    /\ nvlist_exists(res.props_in, "keylocation")
    /\ res.props_in.keylocation = STR_file_k
    /\ res.r.ret = EACCES /\ res.r.acq.n_acq = 0


(***************************************************************************)
(*                    Properties of zfs_crypto_rewrap                      *)
(***************************************************************************)
RewrapDone == e_pc = "done" /\ res.op = "rewrap"

(* the key of the dataset of the call was not loaded when the call began *)
RewrapOfLocked == RewrapDone /\ res.keystatus = ZFS_KEYSTATUS_UNAVAILABLE

(* C11 as stated: a Rewrap, with a new key or inheriting, of a dataset     *)
(* whose own key is unavailable returns EACCES before anything else is     *)
(* done: no key material is acquired (no prompt, no key file opened), no   *)
(* salt is generated and lzc_change_key is not called.                     *)
C11_LockedRewrapDeniedFirst ==
    RewrapOfLocked =>
        /\ res.ret = EACCES
        /\ res.r.acq.n_acq = 0 /\ res.r.acq.n_prompts = 0
        /\ ~res.r.acq.opened
        /\ res.r.acq.n_salt = 0
        /\ res.n_change_key = 0

(* the Rewrap of a dataset whose key is not loaded has prompted twice for  *)
(* a new passphrase, generated a salt and derived the new key, and only    *)
(* then returned EACCES                                                    *)
C11_KeyCollectedBeforeDenial ==
    /\ RewrapOfLocked /\ ~res.inheritkey
    /\ res.ret = EACCES /\ res.r.stage = "keystatus"
    /\ res.r.acq.n_acq = 1 /\ res.r.acq.n_prompts = 2
    /\ res.r.acq.n_salt = 1 /\ res.r.acq.n_derive = 1
    /\ res.n_change_key = 0


(***************************************************************************)
(*        Properties of zfs_crypto_create: datasets without encryption     *)
(***************************************************************************)
(* the parent of the Create is the pool (NULL) or a dataset that exists *)
ParentResolved == res.parent = 0 \/ ParentFound

ExplicitOff(props) ==
    nvlist_exists(props, "encryption") /\ props.encryption = ZIO_CRYPT_OFF

(* the encryption the new dataset would have is off: switched off in the   *)
(* properties, or not given under a parent that is not encrypted           *)
EffectiveOff ==
    /\ CreateDone /\ ParentResolved
    /\ \/ ExplicitOff(res.props_in)
       \/ ~nvlist_exists(res.props_in, "encryption") /\ ParentPlain

(* a crypto property other than encryption is in the list *)
HasKeyProps(props) ==
    \/ nvlist_exists(props, "keyformat")
    \/ nvlist_exists(props, "keylocation")
    \/ nvlist_exists(props, "pbkdf2iters")

(* the same, a keylocation of "none" not counted *)
HasKeyPropsButNone(props) ==
    \/ nvlist_exists(props, "keyformat")
    \/ nvlist_exists(props, "keylocation") /\ props.keylocation # STR_none
    \/ nvlist_exists(props, "pbkdf2iters")

ReturnsNoKey == res.r.wkeydata_out = NoKey /\ res.r.wkeylen_out = 0

RejectedInvalid ==
    res.r.ret = EINVAL /\ ReturnsNoKey /\ res.created = 0

(* C17 as stated: a Create accepted with effective encryption off carries  *)
(* no keyformat, no keylocation of any value and no pbkdf2iters; one that  *)
(* carries any of them is rejected with EINVAL and returns no wrapping     *)
(* key.                                                                    *)
C17_PlainCreateCarriesNoKeyProps ==
    EffectiveOff =>
        /\ res.r.ret = OK => ~HasKeyProps(res.props_in)
        /\ HasKeyProps(res.props_in) => RejectedInvalid

(* C17, amended: a Create accepted with effective encryption off carries   *)
(* no keyformat, no pbkdf2iters and no keylocation other than "none", it   *)
(* makes a dataset that is not encrypted and returns no wrapping key; one  *)
(* that carries a keyformat, a pbkdf2iters or a keylocation other than     *)
(* "none" is rejected with EINVAL and returns no wrapping key; one that    *)
(* carries none of these under a parent that is not encrypted is accepted, *)
(* a keylocation of "none" included.                                       *)
C17_PlainCreateCarriesNoKeyPropsButNone ==
    EffectiveOff =>
        /\ res.r.ret = OK =>
              /\ ~HasKeyPropsButNone(res.props_in)
              /\ res.child.crypt = ZIO_CRYPT_OFF /\ ~res.child.is_local
              /\ ReturnsNoKey /\ res.r.acq.n_acq = 0
        /\ HasKeyPropsButNone(res.props_in) => RejectedInvalid
        /\ (~HasKeyPropsButNone(res.props_in) /\ ParentPlain) =>
              res.r.ret = OK

(* with the feature enabled, a Create that carries only a keylocation of   *)
(* "none" has made a dataset without encryption                            *)
C17_Witness ==
    /\ EffectiveOff /\ res.enabled /\ ParentFound
    /\ res.props_in = PropsOf(ABSENT, ABSENT, STR_none, 0, FALSE)
    /\ res.r.ret = OK /\ res.created = Len(ds)
    /\ ~Encrypted(res.created)

(* the Create of C18: the parent is resolved and the feature is not        *)
(* enabled                                                                 *)
CreateWithoutFeature == CreateDone /\ ParentResolved /\ ~res.enabled

HasCryptoProps(props) ==
    nvlist_exists(props, "encryption") \/ HasKeyProps(props)

AcceptedPlain ==
    /\ res.r.ret = OK /\ res.r.stage = "accepted"
    /\ res.child.crypt = ZIO_CRYPT_OFF /\ ~res.child.is_local
    /\ ReturnsNoKey /\ res.r.acq.n_acq = 0

(* C18 as stated: without the feature a Create that carries encryption     *)
(* with any value, keyformat, keylocation with any value or pbkdf2iters is *)
(* rejected with EINVAL; any other is accepted as not encrypted, with no   *)
(* wrapping key and no key material acquired.                              *)
C18_NoFeatureNoCryptoProps ==
    CreateWithoutFeature =>
        IF HasCryptoProps(res.props_in) THEN res.r.ret = EINVAL
        ELSE AcceptedPlain

(* C18, amended: without the feature a Create that carries an encryption   *)
(* other than off, a keyformat, a keylocation other than "none" or a       *)
(* pbkdf2iters is rejected with EINVAL and returns no wrapping key; any    *)
(* other, encryption=off and keylocation=none included, is accepted as not *)
(* encrypted, with no wrapping key and no key material acquired.           *)
C18_NoFeatureNoCryptoPropsButOffAndNone ==
    CreateWithoutFeature =>
        IF \/ nvlist_exists(res.props_in, "encryption")
              /\ ~ExplicitOff(res.props_in)
           \/ HasKeyPropsButNone(res.props_in)
        THEN RejectedInvalid /\ res.r.acq.n_acq = 0
        ELSE AcceptedPlain

(* without the feature, a Create with encryption=off and keylocation=none  *)
(* has made a dataset                                                      *)
C18_Witness ==
    /\ CreateWithoutFeature
    /\ res.props_in = PropsOf(ZIO_CRYPT_OFF, ABSENT, STR_none, 0, FALSE)
    /\ AcceptedPlain /\ res.created = Len(ds)


InheritDone == RewrapDone /\ res.inheritkey

(* what the inheriting variant asks for, as things were when the call      *)
(* began: the dataset is an encryption root, has a parent, the parent is   *)
(* encrypted, the parent's key and the dataset's own key are loaded        *)
InheritConditions ==
    /\ res.enabled
    /\ res.is_encroot
    /\ res.parent # 0
    /\ res.pcrypt # ZIO_CRYPT_OFF
    /\ res.pkeystatus = ZFS_KEYSTATUS_AVAILABLE
    /\ res.keystatus = ZFS_KEYSTATUS_AVAILABLE

(* C19: in the inheriting variant lzc_change_key is called exactly when    *)
(* the dataset is an encryption root, has a parent, the parent is          *)
(* encrypted, the parent's key is available and the dataset's own key is   *)
(* available; it is called with no properties and no wrapping key; no key  *)
(* material is acquired in this variant; when a condition fails the call   *)
(* returns an error, lzc_change_key is not called and nothing changes.     *)
C19_InheritOnlyUnderLoadedParent ==
    InheritDone =>
        /\ res.r.acq = NoAcq
        /\ res.n_change_key = 1 <=> InheritConditions
        /\ res.n_change_key = 1 =>
              /\ nvlist_is_null(res.r.props)
              /\ res.r.wkeydata = NoKey /\ res.r.wkeylen = 0
        /\ ~InheritConditions =>
              /\ res.ret \in {EINVAL, EACCES}
              /\ res.n_change_key = 0
              /\ zfs_crypto_is_encryption_root(ds, res.d) = res.is_encroot

(* the key of an encryption root under an encrypted parent whose key is   *)
(* loaded has been given up for the parent's                               *)
C19_Witness ==
    /\ InheritDone /\ InheritConditions
    /\ res.n_change_key = 1 /\ res.ret = OK
    /\ ~zfs_crypto_is_encryption_root(ds, res.d)
    /\ EncRootIn(ds, res.d) = res.parent


(* the properties of a Rewrap with a new key do not pass                   *)
(* zfs_crypto_verify_rewrap_nvlist(): a name other than keyformat,         *)
(* keylocation and pbkdf2iters, or a value zfs_valid_proplist() rejects    *)
RekeyPropsRejected ==
    /\ RewrapDone /\ ~res.inheritkey
    /\ \/ \E n \in DOMAIN res.props_in : n \notin RewrapNames
       \/ ~res.valid_ok

(* C20 as stated: when the validation of the properties of a Rewrap with a *)
(* new key fails, the call returns an error, acquires no key material and  *)
(* does not call lzc_change_key.                                           *)
C20_RejectedPropsStopRekey ==
    RekeyPropsRejected =>
        /\ res.ret # OK
        /\ res.r.acq.n_acq = 0
        /\ res.n_change_key = 0

(* zfs_valid_proplist() has rejected a value, and the call has gone on to  *)
(* collect a key, has called lzc_change_key with it and no properties, and *)
(* has returned 0                                                          *)
C20_RekeyedDespiteRejectedValue ==
    /\ RekeyPropsRejected /\ ~res.valid_ok
    /\ res.r.acq.n_acq = 1 /\ res.r.acq.n_derive = 1
    /\ res.n_change_key = 1 /\ res.ret = OK
    /\ nvlist_is_null(res.r.props)
    /\ res.r.wkeydata.ptr = "live"

(***************************************************************************)
(* Load and Unload called one after the other on one dataset.  The handle  *)
(* of a call shows the key status the storage layer has at that time.      *)
(***************************************************************************)
LoadCalled == l_op = "load"

UnloadCalled == l_op = "unload"

(* the dataset of the call is encrypted with a keylocation of its own *)
OnEncryptionRoot ==
    /\ zh.feature
    /\ zh.keyformat # ZFS_KEYFORMAT_NONE
    /\ zh.srctype # ZPROP_SRC_INHERITED

(* the dataset of the call is encrypted under another encryption root *)
OnNonRoot ==
    zh.keyformat # ZFS_KEYFORMAT_NONE /\ zh.srctype = ZPROP_SRC_INHERITED

SecondLoad == LoadCalled /\ ~l_noop /\ l_prev = "loaded"

(* C12: a Load without noop that directly follows a successful Load        *)
(* without noop finds the key Available, returns EEXIST at once, reads no  *)
(* key material, does not call lzc_load_key(), and leaves the key          *)
(* Available.                                                              *)
C12_SecondLoadAlreadyLoaded ==
    SecondLoad =>
        /\ l_status0 = ZFS_KEYSTATUS_AVAILABLE
        /\ l_pc = "done"
        /\ l_ret = EEXIST
        /\ n_acq = 0 /\ n_prompts = 0
        /\ n_ioctl = 0
        /\ zh.keystatus = ZFS_KEYSTATUS_AVAILABLE

C12_Witness ==
    /\ SecondLoad
    /\ OnEncryptionRoot
    /\ l_pc = "done" /\ l_ret = EEXIST /\ l_cause = "precheck"

SecondUnload == UnloadCalled /\ l_prev = "unloaded"

(* C13: an Unload that directly follows a successful Unload finds the key  *)
(* Unavailable, returns ENOENT without calling lzc_unload_key(), and       *)
(* leaves the key Unavailable; lzc_unload_key() is called only by an       *)
(* Unload of an encryption root of a pool with the feature whose key was   *)
(* Available when the call began.                                          *)
C13_SecondUnloadNotFound ==
    /\ SecondUnload =>
          /\ l_status0 = ZFS_KEYSTATUS_UNAVAILABLE
          /\ l_pc = "done"
          /\ l_ret = ENOENT
          /\ n_unload = 0
          /\ zh.keystatus = ZFS_KEYSTATUS_UNAVAILABLE
    /\ n_unload > 0 =>
          /\ UnloadCalled
          /\ OnEncryptionRoot
          /\ l_status0 = ZFS_KEYSTATUS_AVAILABLE

C13_Witness ==
    /\ SecondUnload
    /\ OnEncryptionRoot
    /\ l_pc = "done" /\ l_ret = ENOENT /\ n_unload = 0

NoopLoad == LoadCalled /\ l_noop

NoopLoadOfLoadedRoot ==
    NoopLoad /\ OnEncryptionRoot /\ l_status0 = ZFS_KEYSTATUS_AVAILABLE

(* C14: a Load with noop on an encryption root whose key is Available is   *)
(* not turned away by the checks before the key is read; lzc_load_key() is *)
(* called only with a key that was read and derived; when it answers 0 the *)
(* call returns 0 and the key is still Available.  No Load with noop       *)
(* changes the key status, whatever it was.                                *)
C14_NoopLoadChangesNothing ==
    /\ NoopLoad => zh.keystatus = l_status0
    /\ NoopLoadOfLoadedRoot =>
          /\ l_cause # "precheck"
          /\ l_pc # "idle"
          /\ n_ioctl > 0 => n_acq > 0
          /\ l_pc = "ioctl" => n_acq > 0 /\ key_data.ptr = "live"
          /\ (l_pc = "done" /\ l_ret = OK) =>
                /\ n_ioctl > 0
                /\ key_data.ptr # "null"
                /\ key_data.key = zh.wkey
                /\ zh.keystatus = ZFS_KEYSTATUS_AVAILABLE

C14_Witness ==
    /\ NoopLoadOfLoadedRoot
    /\ l_pc = "done" /\ l_ret = OK
    /\ n_acq = 1 /\ n_ioctl = 1
    /\ zh.keystatus = ZFS_KEYSTATUS_AVAILABLE

(* C15: Load and Unload of an encrypted dataset that inherits its          *)
(* keylocation return EINVAL at once: no key material is read, neither     *)
(* lzc_load_key() nor lzc_unload_key() is called, and the key status is    *)
(* what it was.                                                            *)
C15_NonRootRejected ==
    ((LoadCalled \/ UnloadCalled) /\ OnNonRoot) =>
        /\ l_pc = "done"
        /\ l_ret = EINVAL
        /\ n_acq = 0 /\ n_prompts = 0
        /\ n_ioctl = 0 /\ n_unload = 0
        /\ zh.keystatus = l_status0

C15_Witness ==
    /\ LoadCalled /\ OnNonRoot /\ zh.feature
    /\ l_pc = "done" /\ l_ret = EINVAL /\ l_cause = "precheck"
    /\ l_prev = "none"

C15_UnloadOfNonRoot ==
    /\ UnloadCalled /\ OnNonRoot /\ zh.feature
    /\ l_pc = "done" /\ l_ret = EINVAL

(***************************************************************************)
(*                 Properties of zfs_crypto_attempt_load_keys              *)
(***************************************************************************)
RECURSIVE WalkUnder(_, _, _)
WalkUnder(t, n, top) ==
    n = top \/ (t[n].parent # 0 /\ WalkUnder(t, t[n].parent, top))

(* the call on an existing dataset has returned *)
WalkEnded == w_pc = "done" /\ w_start # 0

(* C16: the walk calls load_keys_cb() at most once on a dataset; the       *)
(* number of attempts is the number of datasets found at their visit to be *)
(* an encryption root with the key not loaded, the number of failures is   *)
(* the number of loads that returned an error, and no more than the        *)
(* attempts; when the call on an existing dataset has returned, that       *)
(* dataset and each of its descendants was visited once and no other       *)
(* dataset was, whatever the loads and the encryption-root queries         *)
(* returned, the two numbers printed are attempted - failed and attempted, *)
(* and the result is an error exactly when a load failed.                  *)
C16_WalkVisitsAllAndCounts ==
    /\ \A n \in DOMAIN w_tree : w_visits[n] <= 1
    /\ cb_numattempted = w_due
    /\ cb_numfailed = w_errs
    /\ cb_numfailed <= cb_numattempted
    /\ WalkEnded =>
          /\ \A n \in DOMAIN w_tree :
                w_visits[n] = IF WalkUnder(w_tree, n, w_start) THEN 1 ELSE 0
          /\ w_printed = <<cb_numattempted - cb_numfailed, cb_numattempted>>
          /\ (w_ret # OK) <=> (cb_numfailed > 0)

(* a chain of three encryption roots walked from the top: the first two    *)
(* loads fail, the third dataset is visited all the same and its key is    *)
(* loaded                                                                  *)
C16_Witness ==
    /\ WalkEnded
    /\ w_start = 1
    /\ Len(w_tree) = MaxNodes
    /\ w_tree[3].parent = 2
    /\ \A n \in DOMAIN w_tree : w_visits[n] = 1 /\ IsRootKind(w_tree[n].kind)
    /\ cb_numattempted = 3 /\ cb_numfailed = 2
    /\ 3 \in w_loaded /\ 1 \notin w_loaded /\ 2 \notin w_loaded
    /\ w_printed = <<1, 3>>
    /\ w_ret = FAILED

(* a dataset whose encryption-root query fails is passed over and the walk *)
(* goes on to its child                                                    *)
C16_QueryFailedWalkGoesOn ==
    /\ WalkEnded
    /\ w_start = 1
    /\ Len(w_tree) = 2
    /\ IsRootKind(w_tree[1].kind) /\ 1 \notin w_loaded
    /\ IsRootKind(w_tree[2].kind)
    /\ cb_numattempted = 1 /\ cb_numfailed = 0
    /\ w_visits[2] = 1 /\ 2 \in w_loaded
    /\ w_ret = OK

(***************************************************************************)
(*            Properties of get_key_material and derive_key                *)
(***************************************************************************)
KeyRead == k_pc # "idle" /\ k_in.rd1.kind = "data"

KeyDerived == k_pc = "derived" /\ k_der.ret = OK

(* the key is read once: no second entry is asked for *)
ReadOnce ==
    ~(k_in.do_verify /\ k_in.tty
      /\ zfs_prop_parse_keylocation(k_in.keylocation)
            = ZFS_KEYLOCATION_PROMPT)

RawFromFile ==
    /\ KeyRead
    /\ k_in.keyformat = ZFS_KEYFORMAT_RAW
    /\ zfs_prop_parse_keylocation(k_in.keylocation) = ZFS_KEYLOCATION_URI

(* C21: a raw key file is accepted exactly when it holds 32 bytes, the     *)
(* wrapping key is then those 32 bytes whatever they are, also when the    *)
(* last one is a newline, and a file of any other length is rejected with  *)
(* EINVAL.                                                                 *)
C21_RawAcceptedIffExactly32 ==
    RawFromFile =>
        /\ (k_gkm.ret = OK) <=> (Len(k_in.rd1.data) = WRAPPING_KEY_LEN)
        /\ Len(k_in.rd1.data) # WRAPPING_KEY_LEN => k_gkm.ret = EINVAL
        /\ KeyDerived => k_der.key = k_in.rd1.data

(* what the code does with a key of 32 bytes whose last byte is a newline: *)
(* the newline is trimmed and the key is found too short                   *)
C21_KeyEndingInNewlineRejected ==
    /\ RawFromFile
    /\ Len(k_in.rd1.data) = WRAPPING_KEY_LEN
    /\ k_in.rd1.data[WRAPPING_KEY_LEN] = NL
    /\ k_gkm.ret = EINVAL /\ k_gkm.why = "validate"

(* and with a longer file that has a newline after 32 bytes: the first 32  *)
(* bytes are the key                                                       *)
C21_LongFileAccepted ==
    /\ RawFromFile
    /\ Len(k_in.rd1.data) = WRAPPING_KEY_LEN + MaxExtra
    /\ k_in.rd1.data[WRAPPING_KEY_LEN + 1] = NL
    /\ KeyDerived
    /\ k_der.key = Prefix(k_in.rd1.data, WRAPPING_KEY_LEN)

(* a file of 32 bytes is accepted unchanged when its last byte is no       *)
(* newline, and an empty file and files of 31 and of 33 bytes that do not  *)
(* end in a newline are rejected                                           *)
C21_RawWithoutNewlineAtTheEnd ==
    (RawFromFile
       /\ (k_in.rd1.data = <<>> \/ k_in.rd1.data[Len(k_in.rd1.data)] # NL)
       /\ Len(k_in.rd1.data) <= WRAPPING_KEY_LEN + 1) =>
        /\ (k_gkm.ret = OK) <=> (Len(k_in.rd1.data) = WRAPPING_KEY_LEN)
        /\ Len(k_in.rd1.data) # WRAPPING_KEY_LEN => k_gkm.ret = EINVAL
        /\ KeyDerived => k_der.key = k_in.rd1.data

(* an entry without its one trailing newline *)
Stripped(x) ==
    IF x # <<>> /\ x[Len(x)] = NL THEN SubSeq(x, 1, Len(x) - 1) ELSE x

KeyEntry == Stripped(k_in.rd1.data)

IsHexDigit(c) == \E i \in 1..Len(HexAlphabet) : HexAlphabet[i] = c

(* the value of a hex digit: its place in 0-9a-f, or in 0-9A-F *)
HexDigitValue(c) ==
    LET i == CHOOSE j \in 1..Len(HexAlphabet) : HexAlphabet[j] = c
    IN  IF i <= 16 THEN i - 1 ELSE i - 7

WellFormedHex(x) ==
    /\ Len(x) = 2 * WRAPPING_KEY_LEN
    /\ \A i \in 1..Len(x) : IsHexDigit(x[i])

HexRead == KeyRead /\ k_in.keyformat = ZFS_KEYFORMAT_HEX

(* C22: a hex entry, its trailing newline stripped, is accepted exactly    *)
(* when it is 64 characters that are all hex digits of either case; byte k *)
(* of the wrapping key is then 16 * value(char 2k) + value(char 2k + 1),   *)
(* counting from 0; an entry of another length or with another character   *)
(* is rejected with EINVAL.                                                *)
C22_HexAcceptedIffSixtyFourDigits ==
    HexRead =>
        /\ ~WellFormedHex(KeyEntry) => k_gkm.ret = EINVAL
        /\ k_gkm.ret = OK => WellFormedHex(KeyEntry)
        /\ (WellFormedHex(KeyEntry) /\ ReadOnce) => k_gkm.ret = OK
        /\ KeyDerived =>
              k_der.key =
                 [k \in 1..WRAPPING_KEY_LEN |->
                    16 * HexDigitValue(KeyEntry[2 * k - 1])
                       + HexDigitValue(KeyEntry[2 * k])]

(* digits of both cases decoded *)
C22_Witness ==
    /\ HexRead
    /\ KeyEntry = HexMixed
    /\ KeyDerived
    /\ k_der.key[1] = 16 * 7 + 14
    /\ k_der.key[2] = 16 * 15 + 6

(* 64 characters '0' give 32 zero bytes *)
C22_ZeroKey ==
    /\ HexRead
    /\ KeyEntry = Rep(48, 2 * WRAPPING_KEY_LEN)
    /\ KeyDerived
    /\ k_der.key = Rep(0, WRAPPING_KEY_LEN)

PassRead == KeyRead /\ k_in.keyformat = ZFS_KEYFORMAT_PASSPHRASE

PassLenOk(x) == Len(x) >= MIN_PASSPHRASE_LEN /\ Len(x) <= MAX_PASSPHRASE_LEN

(* C23: a passphrase, its trailing newline stripped, is accepted exactly   *)
(* when its length is 8 to 64: 7 and 65 bytes are rejected with EINVAL by  *)
(* the validation, 8 and 64 are accepted.                                  *)
C23_PassphraseLengthBounds ==
    PassRead =>
        /\ ~PassLenOk(KeyEntry) =>
              k_gkm.ret = EINVAL /\ k_gkm.why = "validate"
        /\ k_gkm.ret = OK => PassLenOk(KeyEntry)
        /\ (PassLenOk(KeyEntry) /\ ReadOnce) => k_gkm.ret = OK
        /\ Len(KeyEntry) \in {MIN_PASSPHRASE_LEN - 1, MAX_PASSPHRASE_LEN + 1}
              => k_gkm.ret = EINVAL
        /\ (Len(KeyEntry) \in {MIN_PASSPHRASE_LEN, MAX_PASSPHRASE_LEN}
              /\ ReadOnce) => k_gkm.ret = OK /\ k_gkm.kmlen = Len(KeyEntry)

C23_Witness ==
    /\ PassRead /\ ReadOnce
    /\ Len(KeyEntry) = MIN_PASSPHRASE_LEN
    /\ k_gkm.ret = OK /\ k_gkm.kmlen = MIN_PASSPHRASE_LEN

C23_LongestAccepted ==
    PassRead /\ Len(KeyEntry) = MAX_PASSPHRASE_LEN /\ k_gkm.ret = OK

C23_TooShortRejected ==
    PassRead /\ Len(KeyEntry) = MIN_PASSPHRASE_LEN - 1 /\ k_gkm.ret = EINVAL

C23_TooLongRejected ==
    PassRead /\ Len(KeyEntry) = MAX_PASSPHRASE_LEN + 1 /\ k_gkm.ret = EINVAL

(***************************************************************************)
(* PBKDF2 as the standard defines it (RFC 2898, 5.2), with crypto_mac for  *)
(* the pseudorandom function: U_1 = PRF(P, S || INT(i)),                   *)
(* U_j = PRF(P, U_(j-1)), T_i = U_1 xor ... xor U_c, and the derived key   *)
(* the first dkLen bytes of T_1 || T_2.                                    *)
(***************************************************************************)
StdInt(i) == <<0, 0, 0, i>>

RECURSIVE StdU(_, _, _, _)
StdU(P, S, i, j) ==
    IF j = 1 THEN crypto_mac(P, S \o StdInt(i))
    ELSE crypto_mac(P, StdU(P, S, i, j - 1))

RECURSIVE StdT(_, _, _, _)
StdT(P, S, c, i) ==
    IF c = 1 THEN StdU(P, S, i, 1)
    ELSE XorBlock(StdT(P, S, c - 1, i), StdU(P, S, i, c))

StdPbkdf2(P, S, c, dkLen) ==
    SubSeq(StdT(P, S, c, 1) \o StdT(P, S, c, 2), 1, dkLen)

(* v without its n least significant bytes *)
RECURSIVE ShiftBytes(_, _)
ShiftBytes(v, n) == IF n = 0 THEN v ELSE ShiftBytes(v \div 256, n - 1)

(* the 8 bytes of a 64-bit value, least significant first *)
SaltBytes(v) == [k \in 1..8 |-> ShiftBytes(v, k - 1) % 256]

PassDerived == PassRead /\ KeyDerived

(* C24: for every passphrase, salt and iteration count of at least 1 the   *)
(* wrapping key is PBKDF2 of the passphrase with the 8 bytes of the salt,  *)
(* least significant first, and output length 32: T_1 followed by the      *)
(* first 12 bytes of T_2.                                                  *)
C24_DerivationIsPbkdf2 ==
    PassDerived =>
        k_der.key = StdPbkdf2(KeyEntry, SaltBytes(k_in.salt), k_in.iters,
                              WRAPPING_KEY_LEN)

(* what the code does with a passphrase that has a NUL byte in it: the key *)
(* is derived from the bytes before the NUL alone                          *)
C24_PassphraseCutAtNul ==
    /\ PassDerived
    /\ Len(KeyEntry) = MAX_PASSPHRASE_LEN
    /\ KeyEntry[3] = 0 /\ KeyEntry[4] = 98
    /\ k_in.iters = MaxKeyIters
    /\ k_der.key = StdPbkdf2(SubSeq(KeyEntry, 1, 2), SaltBytes(k_in.salt),
                             k_in.iters, WRAPPING_KEY_LEN)
    /\ k_der.key # StdPbkdf2(KeyEntry, SaltBytes(k_in.salt), k_in.iters,
                             WRAPPING_KEY_LEN)

(* a passphrase without a NUL byte is derived as the standard says *)
C24_Pbkdf2WithoutNul ==
    (PassDerived /\ \A i \in 1..Len(KeyEntry) : KeyEntry[i] # 0) =>
        k_der.key = StdPbkdf2(KeyEntry, SaltBytes(k_in.salt), k_in.iters,
                              WRAPPING_KEY_LEN)

C24_Pbkdf2Reached ==
    /\ PassDerived
    /\ \A i \in 1..Len(KeyEntry) : KeyEntry[i] # 0
    /\ k_in.iters = MaxKeyIters /\ k_in.salt = 16909060
    /\ Len(k_der.key) = WRAPPING_KEY_LEN

(* the key is entered at a terminal *)
Interactive ==
    /\ k_in.tty
    /\ zfs_prop_parse_keylocation(k_in.keylocation) = ZFS_KEYLOCATION_PROMPT

(* the first entry is one the validation of its format accepts; raw keys   *)
(* are not read from a terminal at all                                     *)
FirstEntryValid ==
    /\ k_in.rd1.kind = "data"
    /\ CASE k_in.keyformat = ZFS_KEYFORMAT_HEX -> WellFormedHex(KeyEntry)
         [] k_in.keyformat = ZFS_KEYFORMAT_PASSPHRASE -> PassLenOk(KeyEntry)
         [] OTHER -> FALSE

SecondPrompt == k_pc # "idle" /\ k_gkm.nprompts = 2

SecondEntryRead == k_in.rd2.kind \in {"data", "eof"}

SecondEntrySame ==
    k_in.rd2.kind = "data" /\ Stripped(k_in.rd2.data) = KeyEntry

AskedTwiceIffVerifying ==
    k_pc # "idle" =>
        (k_gkm.nprompts = 2
           <=> (Interactive /\ k_in.do_verify /\ FirstEntryValid))

(* C26 as stated: there is a second prompt exactly when the key is entered *)
(* at a terminal, verification is asked for and the first entry is valid;  *)
(* the acquisition then succeeds exactly when the second entry has the     *)
(* length and the bytes of the first, and fails with EINVAL otherwise.     *)
C26_SecondEntryMatchesOrInvalid ==
    /\ AskedTwiceIffVerifying
    /\ SecondPrompt =>
          /\ (k_gkm.ret = OK) <=> SecondEntrySame
          /\ k_gkm.ret # OK => k_gkm.ret = EINVAL

(* C26, amended: as above when the second entry is read; when reading it   *)
(* fails the acquisition fails with the errno of that read.                *)
C26_SecondEntryMatchesOrInvalidOrReadError ==
    /\ AskedTwiceIffVerifying
    /\ SecondPrompt =>
          /\ (k_gkm.ret = OK) <=> SecondEntrySame
          /\ (k_gkm.ret # OK /\ SecondEntryRead) => k_gkm.ret = EINVAL
          /\ ~SecondEntryRead => k_gkm.ret = k_in.rd2.errno

(* a second entry that differs in its last byte only *)
C26_Witness ==
    /\ SecondPrompt
    /\ k_in.keyformat = ZFS_KEYFORMAT_PASSPHRASE
    /\ k_in.rd2.kind = "data"
    /\ Len(Stripped(k_in.rd2.data)) = Len(KeyEntry)
    /\ Stripped(k_in.rd2.data) # KeyEntry
    /\ k_gkm.ret = EINVAL /\ k_gkm.why = "mismatch"

C26_SecondEntryAccepted ==
    SecondPrompt /\ SecondEntrySame /\ k_gkm.ret = OK /\ k_gkm.nraw = 2

C26_SecondReadFailed ==
    SecondPrompt /\ k_in.rd2.kind = "error" /\ k_gkm.ret = EIO

(* zfs_crypto_load_key() asks for no second entry: one prompt at most for  *)
(* each acquisition                                                        *)
C26_LoadAsksOnce == n_prompts <= n_acq

C26_LoadAskedAtEachAttempt ==
    l_pc = "done" /\ n_acq = 2 /\ n_prompts = 2 /\ l_ret = OK

(* the key collection of zfs_crypto_create(), _clone() and _rewrap() that  *)
(* succeeds got its key without a prompt or after two                      *)
C26_CollectionAsksTwice ==
    (e_pc = "done" /\ res.op \in {"create", "clone", "rewrap"}
       /\ res.r.acq.n_acq = 1 /\ res.r.acq.n_derive = 1) =>
        res.r.acq.n_prompts \in {0, 2}

C26_CreateAskedTwice ==
    CreateDone /\ res.r.ret = OK /\ res.r.acq.n_prompts = 2

C26_CloneAskedTwice ==
    CloneDone /\ res.r.ret = OK /\ res.r.acq.n_prompts = 2

C26_RewrapAskedTwice ==
    RewrapDone /\ res.ret = OK /\ res.r.acq.n_prompts = 2

(***************************************************************************)
(* The properties a key collection leaves.                                 *)
(***************************************************************************)
(* a call of Create, Clone or Rewrap that ran the key collection *)
Collected ==
    e_pc = "done" /\ res.op \in {"create", "clone", "rewrap"}
        /\ res.r.acq.n_acq = 1

(* the keyformat the collection was run with: lines 802, 1007, 1502-1508 *)
CollectedKeyformat ==
    IF nvlist_exists(res.props_in, "keyformat")
       /\ res.props_in.keyformat # ZFS_KEYFORMAT_NONE
    THEN res.props_in.keyformat
    ELSE IF res.op = "rewrap" THEN res.keyformat0 ELSE ZFS_KEYFORMAT_NONE

(* the collection returned 0 and its properties go to the storage layer *)
CollectedOk ==
    /\ Collected
    /\ IF res.op = "rewrap" THEN res.r.stage = "ioctl" ELSE res.r.ret = OK

ItersGiven == nvlist_exists(res.props_in, "pbkdf2iters")

(* C25: after a successful key collection the properties handed on hold   *)
(* pbkdf2salt and pbkdf2iters iff the keyformat is passphrase; then the   *)
(* salt is the one just generated and the iterations are the given value  *)
(* or else the default.  With another keyformat a given pbkdf2iters is    *)
(* answered EINVAL once the key material is acquired, and no salt is made *)
(* or stored.                                                             *)
C25_SaltAndItersIffPassphrase ==
    /\ CollectedOk =>
        /\ nvlist_exists(res.r.props, "pbkdf2salt")
               <=> CollectedKeyformat = ZFS_KEYFORMAT_PASSPHRASE
        /\ nvlist_exists(res.r.props, "pbkdf2iters")
               <=> CollectedKeyformat = ZFS_KEYFORMAT_PASSPHRASE
        /\ CollectedKeyformat = ZFS_KEYFORMAT_PASSPHRASE =>
            /\ res.r.props.pbkdf2salt = DEFAULT_SALT + 1
            /\ res.r.acq.n_salt = 1
            /\ res.r.props.pbkdf2iters
                   = IF ItersGiven THEN res.props_in.pbkdf2iters
                     ELSE DEFAULT_PBKDF2_ITERATIONS
    /\ Collected /\ CollectedKeyformat # ZFS_KEYFORMAT_PASSPHRASE =>
        /\ res.r.acq.n_salt = 0
        /\ ~nvlist_exists(res.r.props, "pbkdf2salt")
        /\ ItersGiven => res.r.ret # OK
        /\ ItersGiven /\ res.r.acq.acquired =>
               res.r.ret = EINVAL /\ res.r.acq.n_derive = 0

(* a passphrase root is created without pbkdf2iters: the default is stored *)
C25_Witness ==
    /\ CreateDone /\ CollectedOk /\ ~ItersGiven
    /\ CollectedKeyformat = ZFS_KEYFORMAT_PASSPHRASE
    /\ res.r.props.pbkdf2iters = DEFAULT_PBKDF2_ITERATIONS
    /\ res.r.props.pbkdf2salt = DEFAULT_SALT + 1

(* a rekey to a passphrase with the iterations given *)
C25_RewrapKeepsGivenIters ==
    /\ RewrapDone /\ CollectedOk /\ ItersGiven
    /\ res.r.props.pbkdf2iters = MODEL_ITERS + 1
    /\ nvlist_exists(res.r.props, "pbkdf2salt")

(* a hex root: neither property *)
C25_HexWithoutSalt ==
    /\ CloneDone /\ CollectedOk
    /\ CollectedKeyformat = ZFS_KEYFORMAT_HEX
    /\ ~nvlist_exists(res.r.props, "pbkdf2salt")
    /\ ~nvlist_exists(res.r.props, "pbkdf2iters")

(* pbkdf2iters given with a hex key *)
C25_ItersWithHexRejected ==
    /\ Collected /\ CollectedKeyformat = ZFS_KEYFORMAT_HEX /\ ItersGiven
    /\ res.r.acq.acquired /\ res.r.ret = EINVAL

(* pbkdf2iters given with a raw key read from a file *)
C25_ItersWithRawRejected ==
    /\ Collected /\ CollectedKeyformat = ZFS_KEYFORMAT_RAW /\ ItersGiven
    /\ res.r.acq.acquired /\ res.r.acq.opened /\ res.r.ret = EINVAL

(***************************************************************************)
(* The order of the property checks and the key collection.                *)
(***************************************************************************)
(* pbkdf2iters is given for a key that is not a passphrase: lines 683-694 *)
ItersWithoutPassphrase ==
    /\ e_pc = "done" /\ res.op \in {"create", "clone", "rewrap"}
    /\ ItersGiven
    /\ CollectedKeyformat \in {ZFS_KEYFORMAT_RAW, ZFS_KEYFORMAT_HEX}

(* C28 as stated: a Create, Clone or Rewrap that is rejected for the       *)
(* combination of its properties, as pbkdf2iters with a raw or hex         *)
(* keyformat is, has shown no prompt and opened no key file: no key        *)
(* material was asked for.                                                 *)
C28_RejectedBeforeKeyMaterial ==
    /\ ItersWithoutPassphrase =>
        /\ res.r.ret # OK
        /\ res.r.acq.n_acq = 0 /\ res.r.acq.n_prompts = 0
        /\ ~res.r.acq.opened
    /\ e_pc = "done" /\ res.op \in {"create", "clone", "rewrap"}
           /\ res.r.stage = "policy" =>
        res.r.acq = NoAcq

(* what the code does: the new key was entered twice at the prompt and    *)
(* accepted, and then the request is rejected for its pbkdf2iters         *)
C28_KeyEnteredThenRejected ==
    /\ CreateDone /\ ItersWithoutPassphrase
    /\ res.r.acq.n_acq = 1 /\ res.r.acq.n_prompts = 2
    /\ res.r.acq.acquired /\ res.r.acq.n_derive = 0
    /\ res.r.ret = EINVAL /\ res.r.stage = "keys"

(* the same with a key file: it is opened and read first *)
C28_KeyFileReadThenRejected ==
    /\ RewrapDone /\ ItersWithoutPassphrase
    /\ res.r.acq.opened /\ res.r.acq.acquired
    /\ res.r.ret = EINVAL /\ res.r.stage = "keys"

(* the checks made before the collection do precede it *)
C28_EarlierChecksPrecede ==
    e_pc = "done" /\ res.op \in {"create", "clone", "rewrap"}
        /\ res.r.stage \in {"lookup", "policy"} =>
            res.r.acq = NoAcq

(***************************************************************************)
(* The buffers of zfs_crypto_load_key().                                   *)
(***************************************************************************)
(* C27 as stated: in a Load, whatever the attempts come to, no key         *)
(* material and no wrapping key is released twice, and a released buffer   *)
(* is not used again: the key material derived from and the wrapping key   *)
(* passed to the storage layer are live.                                   *)
C27_NoBufferReleasedTwice ==
    /\ ~double_free
    /\ l_pc # "crashed"
    /\ l_pc = "derive" => key_material.ptr = "live"
    /\ l_pc = "ioctl" => key_material.ptr = "live" /\ key_data.ptr = "live"

(* what the code does: the first attempt's key is answered EACCES and its  *)
(* buffers are released; the second attempt fails in get_key_material(),   *)
(* which sets key_material to NULL but leaves key_data pointing at the     *)
(* released wrapping key, and label error releases it again               *)
C27_WrappingKeyReleasedTwice ==
    /\ double_free
    /\ n_acq = 2 /\ n_ioctl = 1 /\ EACCES \in l_seen
    /\ l_ret # OK /\ l_cause \notin {EACCES, "derive"}
    /\ key_material.ptr = "null" /\ key_data.ptr = "freed"

(* the second release may end the process *)
C27_AbortedInFree == l_pc = "crashed" /\ double_free

(* the buffers are live where they are used, and only key_data is ever     *)
(* released twice                                                          *)
C27_NoUseAfterRelease ==
    /\ l_pc = "derive" => key_material.ptr = "live"
    /\ l_pc = "ioctl" => key_material.ptr = "live" /\ key_data.ptr = "live"
    /\ l_pc = "error" => key_material.ptr # "freed"

(***************************************************************************)
(* The answers of the storage layer that end a Load.                       *)
(***************************************************************************)
FinalAnswers == {EINVAL, EEXIST, EBUSY}

(* the storage layer has given one of the final answers in this call *)
FinalAnswerSeen == l_op = "load" /\ l_seen \cap FinalAnswers # {}

(* C30: once lzc_load_key() has answered EINVAL, EEXIST or EBUSY the Load  *)
(* returns that error: it is at label error with the flag correctible      *)
(* down or has returned, no key material is acquired and no lzc_load_key() *)
(* is made after the answer, whatever can_retry and attempts are.  A Load  *)
(* that tries again after a call of lzc_load_key() was answered EACCES by  *)
(* each call it made.                                                      *)
C30_OnlyAccessDeniedRetries ==
    /\ FinalAnswerSeen =>
        /\ l_pc \in {"error", "done"}
        /\ l_cause \in FinalAnswers /\ l_ret = l_cause
        /\ l_pc = "error" => ~correctible
        /\ l_seen \cap FinalAnswers = {l_cause}
    /\ l_op = "load" /\ l_pc \in {"try_again", "derive", "ioctl"}
           /\ n_ioctl > 0 =>
        /\ EACCES \in l_seen
        /\ l_seen \cap FinalAnswers = {}

(* busy is answered to the first key entered at the terminal: the Load     *)
(* returns EBUSY with its retries unused                                   *)
C30_Witness ==
    /\ l_pc = "done" /\ l_op = "load" /\ l_ret = EBUSY
    /\ can_retry /\ attempts = 0 /\ n_acq = 1 /\ n_ioctl = 1

(* a final answer after a wrong key was entered *)
C30_FinalAfterAccessDenied ==
    /\ l_pc = "done" /\ l_op = "load" /\ l_ret = EEXIST
    /\ EACCES \in l_seen /\ can_retry /\ attempts = 1
    /\ n_acq = 2 /\ n_ioctl = 2

(* a wrong key is followed by another acquisition *)
C30_AccessDeniedRetried ==
    /\ l_pc = "ioctl" /\ l_op = "load" /\ l_seen = {EACCES}
    /\ n_acq = 2 /\ n_ioctl = 1

(***************************************************************************)
(* The buffers left when a call returns.                                   *)
(***************************************************************************)
NoneLive == key_material.ptr # "live" /\ key_data.ptr # "live"

C29_ReleasedOnSuccess ==
    /\ l_pc = "done" /\ l_op = "load" /\ l_ret = OK /\ n_ioctl = 1
    /\ key_material.ptr = "freed" /\ key_data.ptr = "freed"

C29_NothingLeftOfRejectedKey ==
    /\ l_pc = "done" /\ l_op = "load" /\ l_cause = "validate"
    /\ n_acq = 1 /\ key_material.ptr = "null" /\ key_data.ptr = "null"

C29_ReleasedOnDeriveFailure ==
    /\ l_pc = "done" /\ l_op = "load" /\ l_cause = "derive"
    /\ key_material.ptr = "freed" /\ key_data.ptr = "null"

C29_ReleasedOnStorageError ==
    /\ l_pc = "done" /\ l_op = "load" /\ l_ret = EBUSY
    /\ key_material.ptr = "freed" /\ key_data.ptr = "freed"

(* C29 for Create, Clone and Rewrap: of the buffers of the key collection  *)
(* a Create or Clone that succeeds leaves the wrapping key it returns, and *)
(* every other return leaves none                                          *)
C29_CollectionReleasesItsBuffers ==
    e_pc = "done" /\ res.op \in {"create", "clone", "rewrap"} =>
        IF res.op \in {"create", "clone"} /\ res.r.ret = OK
           /\ res.r.acq.n_acq = 1
        THEN res.r.acq.live = 1 /\ res.r.wkeydata_out.ptr = "live"
        ELSE res.r.acq.live = 0

C29_CreateReturnsItsKey ==
    CreateDone /\ res.r.ret = OK /\ res.r.acq.live = 1

C29_FailedCloneLeavesNothing ==
    CloneDone /\ res.r.acq.acquired /\ res.r.ret # OK /\ res.r.acq.live = 0

C29_RewrapLeavesNothing ==
    RewrapDone /\ res.ret = OK /\ res.r.acq.n_derive = 1
        /\ res.r.acq.live = 0

C29_DeniedRewrapLeavesNothing ==
    RewrapDone /\ res.r.stage = "keystatus" /\ res.r.acq.n_derive = 1
        /\ res.r.acq.live = 0

(***************************************************************************)
(* The newline trim of get_key_material_raw(), lines 213-216.              *)
(***************************************************************************)
(* the acquisition called get_key_material_raw() *)
RawCalled == k_pc # "idle" /\ k_gkm.nraw > 0

(* fread() delivered nothing of a raw key file *)
EmptyRawRead ==
    /\ RawCalled /\ k_in.keyformat = ZFS_KEYFORMAT_RAW
    /\ k_raw.ret = OK /\ k_raw.trim.nread = 0

(* C32 as stated: the trim looks at, and writes, only a byte among those   *)
(* read, for an empty input too; the length reported is not negative (nor, *)
(* as a size_t, beyond what was read); and an empty raw key file ends as   *)
(* EINVAL, too short.                                                      *)
C32_TrimStaysInsideTheBytesRead ==
    RawCalled =>
        /\ k_raw.trim.inspected =>
               k_raw.trim.at >= 0 /\ k_raw.trim.at < k_raw.trim.nread
        /\ k_raw.len >= 0 /\ k_raw.len <= k_raw.trim.nread
        /\ EmptyRawRead => k_gkm.ret = EINVAL /\ k_raw.len < WRAPPING_KEY_LEN

(* what the code does with an empty raw key file: bytes is 0 and the trim  *)
(* reads the byte in front of the buffer                                   *)
C32_ByteBeforeBufferRead ==
    /\ EmptyRawRead
    /\ k_raw.trim.inspected /\ k_raw.trim.at = -1
    /\ k_gkm.ret = EINVAL

(* when that byte is a newline it is overwritten, bytes becomes -1 and the *)
(* length reported is (size_t)-1: the key is refused as too long           *)
C32_ByteBeforeBufferWritten ==
    /\ EmptyRawRead
    /\ k_raw.trim.wrote /\ k_raw.trim.at = -1
    /\ k_raw.len = SIZE_MAX
    /\ k_gkm.ret = EINVAL

(* a read that delivered something is trimmed inside of it, and an empty   *)
(* raw key file is answered EINVAL whatever the byte was                   *)
C32_TrimInsideUnlessEmpty ==
    RawCalled =>
        /\ k_raw.trim.inspected /\ k_raw.trim.nread > 0 =>
            /\ k_raw.trim.at = k_raw.trim.nread - 1
            /\ k_raw.len = k_raw.trim.nread - (IF k_raw.trim.wrote THEN 1
                                                ELSE 0)
        /\ k_raw.trim.inspected => k_raw.ret = OK
        /\ EmptyRawRead => k_gkm.ret = EINVAL

(* getline() at the end of the input: the trim is not reached *)
C32_EndOfLineInputSkipsTrim ==
    /\ RawCalled /\ k_in.keyformat # ZFS_KEYFORMAT_RAW
    /\ k_in.rd1.kind = "eof" /\ ~k_raw.trim.inspected

(***************************************************************************)
(* The round trip of the wrapping key.                                     *)
(***************************************************************************)
(* a Load of the root that has derived a key *)
LoadDerived ==
    k_root.exists /\ k_pc \in {"derived", "answered"} /\ k_der.ret = OK

(* the Load reads what the Create or Rekey that made the root's key read *)
SameMaterial == k_root.exists /\ k_pc # "idle" /\ k_in.rd1 = k_root.rd

(* C31: a Load of a root made by Create or Rekey derives with the salt and *)
(* the iterations the property set of that request held (for a passphrase; *)
(* none otherwise), and from the key material the request was given it     *)
(* derives the wrapping key the request produced, for every keyformat:     *)
(* lzc_load_key() does not answer it EACCES.                               *)
C31_LoadDerivesTheKeyOfCreate ==
    /\ k_root.exists /\ k_pc # "idle" =>
        /\ k_in.keyformat = k_root.keyformat
        /\ k_in.salt = (IF k_root.keyformat = ZFS_KEYFORMAT_PASSPHRASE
                        THEN k_root.salt ELSE 0)
        /\ k_in.iters = (IF k_root.keyformat = ZFS_KEYFORMAT_PASSPHRASE
                         THEN k_root.iters ELSE 0)
    /\ SameMaterial /\ k_in.tty = k_root.tty => k_gkm.ret = OK
    /\ SameMaterial /\ LoadDerived =>
        /\ k_der.key = k_root.wkey
        /\ k_pc = "answered" => k_ans # EACCES

(* a passphrase root made with a salt of four different bytes and         *)
(* iterations of its own: the Load with the passphrase is accepted        *)
C31_Witness ==
    /\ SameMaterial /\ LoadDerived /\ k_pc = "answered" /\ k_ans = OK
    /\ k_root.keyformat = ZFS_KEYFORMAT_PASSPHRASE
    /\ k_root.salt = 16909060 /\ k_root.iters = MaxKeyIters
    /\ k_der.key = k_root.wkey

(* the same for a root that was given a new key: the iterations of the   *)
(* Rekey replace those of the Create                                      *)
C31_LoadAfterRekey ==
    /\ SameMaterial /\ LoadDerived /\ k_pc = "answered" /\ k_ans = OK
    /\ k_root.keyformat = ZFS_KEYFORMAT_PASSPHRASE
    /\ k_root.keylocation = STR_file_k
    /\ k_root.iters = 1 /\ k_root.rd = Data(Line(PassB))

C31_HexRoundTrip ==
    /\ SameMaterial /\ LoadDerived /\ k_ans = OK /\ k_pc = "answered"
    /\ k_root.keyformat = ZFS_KEYFORMAT_HEX /\ k_root.rd = Data(Line(HexMixed))

C31_RawRoundTrip ==
    /\ SameMaterial /\ LoadDerived /\ k_ans = OK /\ k_pc = "answered"
    /\ k_root.keyformat = ZFS_KEYFORMAT_RAW /\ k_root.rd = Data(RawB)

(* another key is answered EACCES *)
C31_OtherKeyDenied ==
    /\ LoadDerived /\ ~SameMaterial /\ k_pc = "answered"
    /\ k_ans = EACCES /\ k_der.key # k_root.wkey

(* a passphrase with a NUL byte makes the round trip too: both sides cut   *)
(* it at the NUL                                                           *)
C31_CutPassphraseRoundTrip ==
    /\ SameMaterial /\ LoadDerived /\ k_ans = OK /\ k_pc = "answered"
    /\ k_root.rd = Data(Line([PassB EXCEPT ![3] = 0]))

====
